---- MODULE Spec2Model ----
(***************************************************************************)
(* A model of the MiniC compiler's IR optimizer (optimizer.cpp) and of its *)
(* register-allocating backend (register_allocation.cpp, codegen.cpp).     *)
(*                                                                         *)
(* A function is a sequence of basic blocks, each a sequence of            *)
(* instruction identities; `ins` maps an identity to its opcode,           *)
(* predicate and operand list.  Uses are derived by scanning operands, as  *)
(* LLVM's use lists are kept in step with the operands.                    *)
(***************************************************************************)
EXTENDS Integers, Sequences, FiniteSets, TLC

VARIABLES
    blocks,       \* the function: Seq of blocks, each a Seq of instruction ids
    ins,          \* id -> [op, pr, ops] for the instructions still in the function
    pc,           \* position of optimizeFunction: "prop","fold","cse","dce","done","crashed"
    bi,           \* index of the block the per-block loop is at
    codeChanged,  \* optimizeFunction's flag
    run,          \* 1: first call of optimizeFunction, 2: a second call on its result
    ub,           \* "none", or the outcome this build showed for the out-of-range read
    orig,         \* the function as it was given to the optimizer
    prev,         \* the function as it was before the pass that ran last
    last,         \* the pass that ran last, with the block it ran on and what it did
    snap,         \* the function when the first call returned
    head          \* the function as it was when the loop head was last entered

optVars == <<blocks, ins, pc, bi, codeChanged, run, ub, orig, prev, last, snap, head>>

VARIABLES
    bfun,            \* the function codegen was given
    bpc,             \* position of codegen: "gen","alloc","emit","crashed","call","run","returned","fault"
    ab,              \* index of the block allocateRegisterForFunction is at
    ai,              \* index in instructionList of the instruction to allocate next
    bbMap,           \* bbAllocatedRegisterMap: value -> register or SPILL
    avail,           \* availableRegisters
    bbUsedEBX,       \* usedEBX of allocateRegisterForBasicBlock
    usedEBX,         \* usedEBX of generateAssemblyCode
    allocatedRegMap  \* the map allocateRegisterForFunction returns

allocVars == <<bfun, bpc, ab, ai, bbMap, avail, bbUsedEBX, usedEBX, allocatedRegMap>>

VARIABLES
    asm,             \* the assembly written for the function
    ip,              \* index in asm of the instruction the machine executes next
    reg,             \* the machine's registers
    stack,           \* the machine's stack
    flags,           \* the machine's condition flags
    printed          \* what print has written

machVars == <<asm, ip, reg, stack, flags, printed>>

VARIABLES
    rest,            \* the functions of the module after bfun
    funCounter,      \* funCounter of generateAssemblyCode
    offsetMap        \* the static offsetMap of generateAssemblyForFunction:
                     \* <<function, instruction>> -> offset

modVars == <<rest, funCounter, offsetMap>>

backVars == <<allocVars, machVars, modVars>>

VARIABLES
    argc,            \* argc of main
    irFile,          \* the file argv[1] names: "ok", "unreadable" or "unparsable"
    outDir,          \* whether the output file can be created: "writable", "readonly"
    outFile,         \* the output file: "none", "open", "failed" or "written"
    exitCode         \* what main returned, -1 while it has not returned

drvVars == <<argc, irFile, outDir, outFile, exitCode>>

vars == <<optVars, backVars, drvVars>>

(***************************************************************************)
(* Values: operands of instructions.                                       *)
(***************************************************************************)
CI(n)  == [k |-> "ci",  v |-> n]     \* an i32 constant
CB(n)  == [k |-> "cb",  v |-> n]     \* an i1 constant (a folded icmp)
Rf(i)  == [k |-> "in",  v |-> i]     \* the result of instruction i
Arg    == [k |-> "arg", v |-> 0]     \* the function's formal parameter
BB(b)  == [k |-> "bb",  v |-> b]     \* a basic-block label

\* the two declared functions, as callee operands
FnRead  == [k |-> "fn", v |-> 0]
FnPrint == [k |-> "fn", v |-> 1]

Instr(o, p, a) == [op |-> o, pr |-> p, ops |-> a]

Alloca        == Instr("alloca", "-", <<CI(1)>>)
Load(p)       == Instr("load", "-", <<Rf(p)>>)
Store(v, p)   == Instr("store", "-", <<v, Rf(p)>>)
Add(a, b)     == Instr("add", "-", <<a, b>>)
Sub(a, b)     == Instr("sub", "-", <<a, b>>)
Mul(a, b)     == Instr("mul", "-", <<a, b>>)
ICmp(p, a, b) == Instr("icmp", p, <<a, b>>)
Br(t)         == Instr("br", "-", <<BB(t)>>)
CondBr(c, f, t) == Instr("br", "-", <<c, BB(f), BB(t)>>)
Ret(v)        == Instr("ret", "-", <<v>>)
CallRead      == Instr("call", "-", <<FnRead>>)
CallPrint(v)  == Instr("call", "-", <<v, FnPrint>>)

(***************************************************************************)
(* 32-bit two's-complement arithmetic, as LLVMConstAdd/Sub/Mul compute it  *)
(* on i32 constants.  No intermediate value leaves the 32-bit range.       *)
(***************************************************************************)
IntMax == 2147483647
IntMin == (-IntMax) - 1

WAdd(a, b) ==
    IF a >= 0 /\ b >= 0
    THEN IF a > IntMax - b THEN ((a - IntMax) - 1) + ((b - IntMax) - 1) ELSE a + b
    ELSE IF a < 0 /\ b < 0
    THEN IF a < IntMin - b THEN ((a + IntMax) + 1) + ((b + IntMax) + 1) ELSE a + b
    ELSE a + b

WNeg(a) == IF a = IntMin THEN IntMin ELSE -a

WSub(a, b) == WAdd(a, WNeg(b))

\* shift-and-add over the bits of a positive multiplier
RECURSIVE WMulPos(_, _)
WMulPos(a, b) ==
    IF b = 0 THEN 0
    ELSE IF b % 2 = 1 THEN WAdd(a, WMulPos(WAdd(a, a), b \div 2))
    ELSE WMulPos(WAdd(a, a), b \div 2)

WMul(a, b) ==
    IF b = IntMin THEN (IF a % 2 = 0 THEN 0 ELSE IntMin)
    ELSE IF b < 0 THEN WNeg(WMulPos(a, -b))
    ELSE WMulPos(a, b)

(***************************************************************************)
(* Helpers over sequences and the function.                                *)
(***************************************************************************)
RECURSIVE Flatten(_)
Flatten(ss) == IF ss = <<>> THEN <<>> ELSE Head(ss) \o Flatten(Tail(ss))

Range(s) == {s[i] : i \in DOMAIN s}

SelectIn(s, S) == SelectSeq(s, LAMBDA x : x \in S)

\* the index of x in s (x occurs once)
IndexOf(s, x) == CHOOSE i \in DOMAIN s : s[i] = x

\* the block an instruction lies in
BlockOf(B, x) == CHOOSE b \in DOMAIN B : x \in Range(B[b])

(***************************************************************************)
(* Uses and replace-all-uses-with.                                         *)
(***************************************************************************)
\* LLVMGetFirstUse(x) != NULL: some instruction of the function has x as operand
hasUses(I, x) ==
    \E i \in DOMAIN I : \E j \in DOMAIN I[i].ops : I[i].ops[j] = Rf(x)

\* the (user, operand index) pairs that refer to x
UsesOf(I, x) ==
    {<<i, j>> \in (DOMAIN I) \X (1..3) : j \in DOMAIN I[i].ops /\ I[i].ops[j] = Rf(x)}

\* LLVMReplaceAllUsesWith(x, nv)
RAUW(I, x, nv) ==
    [i \in DOMAIN I |->
        [I[i] EXCEPT !.ops = [j \in DOMAIN I[i].ops |->
                                 IF I[i].ops[j] = Rf(x) THEN nv ELSE I[i].ops[j]]]]

\* LLVMInstructionEraseFromParent for every instruction of D
EraseIns(I, D) == [i \in (DOMAIN I) \ D |-> I[i]]

EraseBlocks(B, D) == [b \in DOMAIN B |-> SelectSeq(B[b], LAMBDA x : x \notin D)]

isConstantInt(v) == v.k \in {"ci", "cb"}

\* the result type of an instruction
TypeOf(i) ==
    CASE i.op \in {"store", "br", "ret"} -> "void"
      [] i.op = "call" -> IF i.ops[Len(i.ops)] = FnPrint THEN "void" ELSE "i32"
      [] i.op = "alloca" -> "ptr"
      [] i.op = "icmp" -> "i1"
      [] OTHER -> "i32"

(***************************************************************************)
(* Constant folding (per block).                                           *)
(***************************************************************************)
isArithmeticOrIcmpOperation(i) == i.op \in {"add", "sub", "mul", "icmp"}

allOperandsAreConstant(i) == \A j \in DOMAIN i.ops : isConstantInt(i.ops[j])

ICmpHolds(p, a, b) ==
    CASE p = "eq"  -> a = b
      [] p = "ne"  -> a # b
      [] p = "slt" -> a < b
      [] p = "sle" -> a <= b
      [] p = "sgt" -> a > b
      [] p = "sge" -> a >= b

\* variant: the operands of a subtraction are taken in the other order
computeFoldedConstant_subSwapped(i) ==
    LET a == i.ops[1].v
        b == i.ops[2].v
    IN  CASE i.op = "add"  -> CI(WAdd(a, b))
          [] i.op = "sub"  -> CI(WSub(b, a))
          [] i.op = "mul"  -> CI(WMul(a, b))
          [] i.op = "icmp" -> CB(IF ICmpHolds(i.pr, a, b) THEN 1 ELSE 0)

computeFoldedConstant(i) ==
    LET a == i.ops[1].v
        b == i.ops[2].v
    IN  CASE i.op = "add"  -> CI(WAdd(a, b))
          [] i.op = "sub"  -> CI(WSub(a, b))
          [] i.op = "mul"  -> CI(WMul(a, b))
          [] i.op = "icmp" -> CB(IF ICmpHolds(i.pr, a, b) THEN 1 ELSE 0)

RECURSIVE FoldFrom(_, _, _, _)
FoldFrom(seq, k, I, ch) ==
    IF k > Len(seq) THEN [ins |-> I, changed |-> ch]
    ELSE LET x == seq[k]
         IN  IF isArithmeticOrIcmpOperation(I[x]) /\ allOperandsAreConstant(I[x])
             THEN FoldFrom(seq, k + 1, RAUW(I, x, computeFoldedConstant(I[x])), TRUE)
             ELSE FoldFrom(seq, k + 1, I, ch)

constantFolding(seq, I) == FoldFrom(seq, 1, I, FALSE)

(***************************************************************************)
(* Common-subexpression elimination (per block).                           *)
(***************************************************************************)
\* same operand count and componentwise the same value (hence the same type)
isSameOperands(i1, i2) ==
    /\ Len(i1.ops) = Len(i2.ops)
    /\ \A j \in DOMAIN i1.ops : i1.ops[j] = i2.ops[j]

\* variant: any store between the two loads invalidates the reuse
safeToReplaceLoadInstructions_anyStore(seq, I, j, k) ==
    \A m \in (j + 1)..(k - 1) : I[seq[m]].op # "store"

\* variant: the scan for a store starts at the head of the block
safeToReplaceLoadInstructions_fromBlockHead(seq, I, j, k) ==
    LET ptr1 == I[seq[j]].ops[1]
    IN  \A m \in 1..(k - 1) :
            ~(I[seq[m]].op = "store" /\ I[seq[m]].ops[2] = ptr1)

\* no store strictly between positions j and k of the block writes to the
\* pointer the load at position j reads
safeToReplaceLoadInstructions(seq, I, j, k) ==
    LET ptr1 == I[seq[j]].ops[1]
    IN  \A m \in (j + 1)..(k - 1) :
            ~(I[seq[m]].op = "store" /\ I[seq[m]].ops[2] = ptr1)

isCommonSubexpression(seq, I, j, k) ==
    /\ isSameOperands(I[seq[j]], I[seq[k]])
    /\ \/ (I[seq[j]].op # "load" /\ I[seq[k]].op # "load")
       \/ safeToReplaceLoadInstructions(seq, I, j, k)

\* variant: opcodeMap[op] keeps only the instruction seen last
CseBucket_lastOnly(seq, I, k) ==
    LET S == {j \in 1..(k - 1) : I[seq[j]].op = I[seq[k]].op}
    IN  {j \in S : \A m \in S : m <= j}

\* the earlier instructions of opcodeMap[op], in the order they were pushed
CseBucket(seq, I, k) ==
    {j \in 1..(k - 1) : I[seq[j]].op = I[seq[k]].op}

CseMatches(seq, I, k) ==
    {j \in CseBucket(seq, I, k) :
        hasUses(I, seq[j]) /\ isCommonSubexpression(seq, I, j, k)}

Min(S) == CHOOSE x \in S : \A y \in S : x <= y
Max(S) == CHOOSE x \in S : \A y \in S : x >= y

RECURSIVE CseFrom(_, _, _, _, _)
CseFrom(seq, k, I, ch, rep) ==
    IF k > Len(seq) THEN [ins |-> I, changed |-> ch, repl |-> rep]
    ELSE IF I[seq[k]].op = "alloca" THEN CseFrom(seq, k + 1, I, ch, rep)
    ELSE LET ms == CseMatches(seq, I, k)
         IN  IF ms = {} THEN CseFrom(seq, k + 1, I, ch, rep)
             ELSE CseFrom(seq, k + 1, RAUW(I, seq[k], Rf(seq[Min(ms)])), TRUE,
                          rep \cup {<<seq[k], seq[Min(ms)]>>})

commonSubexpressionElimination(seq, I) == CseFrom(seq, 1, I, FALSE, {})

(***************************************************************************)
(* Dead-code elimination (per block).                                      *)
(***************************************************************************)
\* variant: calls are not counted
hasSideEffects_noCall(i) == i.op \in {"store", "br", "ret"}

hasSideEffects(i) == i.op \in {"store", "br", "ret", "call"}

\* variant: the scan stops at the first instruction it marks
DceMarked_firstOnly(seq, I) ==
    LET D == {x \in Range(seq) : ~hasUses(I, x) /\ ~hasSideEffects(I[x])}
    IN  {x \in D : \A y \in D : IndexOf(seq, x) <= IndexOf(seq, y)}

\* the instructions the forward scan marks: no uses and no side effects
DceMarked(seq, I) ==
    {x \in Range(seq) : ~hasUses(I, x) /\ ~hasSideEffects(I[x])}

deadCodeElimination(seq, I) ==
    LET D == DceMarked(seq, I)
    IN  [del |-> D, changed |-> D # {}]

(***************************************************************************)
(* Constant propagation (whole function): reaching stores.                 *)
(***************************************************************************)
isStore(I, x) == I[x].op = "store"

\* storeInstructionsMap[p]: the stores of the function that write to pointer p
StoresTo(B, I, p) == {x \in Range(Flatten(B)) : isStore(I, x) /\ I[x].ops[2] = p}

\* GEN[b] as the scan of block b leaves it: each store is inserted and erases
\* the stores to its pointer that were inserted before it
RECURSIVE GenFrom(_, _, _, _)
GenFrom(seq, I, k, G) ==
    IF k > Len(seq) THEN G
    ELSE IF isStore(I, seq[k])
         THEN GenFrom(seq, I, k + 1,
                      {g \in G : I[g].ops[2] # I[seq[k]].ops[2]} \cup {seq[k]})
         ELSE GenFrom(seq, I, k + 1, G)

GenSet(B, I, b) == GenFrom(B[b], I, 1, {})

\* KILL[b]: for each store s of b, every other store to s's pointer
KillSet(B, I, b) ==
    UNION {StoresTo(B, I, I[s].ops[2]) \ {s} : s \in {x \in Range(B[b]) : isStore(I, x)}}

\* successors of a block, from its terminator
Successors(B, I, b) ==
    LET t == I[B[b][Len(B[b])]]
    IN  {t.ops[j].v : j \in {j \in DOMAIN t.ops : t.ops[j].k = "bb"}}

\* predMap[b]
Preds(B, I, b) == {p \in DOMAIN B : b \in Successors(B, I, p)}

findUnionOfAllPredOuts(B, I, b, out) == UNION {out[p] : p \in Preds(B, I, b)}

\* variant: nothing is subtracted from IN[B]
findUnionOfInAndGen_noKill(B, I, b, inb) == inb \cup GenSet(B, I, b)

findUnionOfInAndGen(B, I, b, inb) ==
    IF inb = {} THEN GenSet(B, I, b)
    ELSE (inb \ KillSet(B, I, b)) \cup GenSet(B, I, b)

\* one sweep of the while loop over the blocks in order; st = [in, out, ch]
RECURSIVE InOutSweep(_, _, _, _)
InOutSweep(B, I, b, st) ==
    IF b > Len(B) THEN st
    ELSE LET inb == findUnionOfAllPredOuts(B, I, b, st.out)
             nw  == findUnionOfInAndGen(B, I, b, inb)
         IN  InOutSweep(B, I, b + 1,
                 [in  |-> [st.in EXCEPT ![b] = inb],
                  out |-> [st.out EXCEPT ![b] = nw],
                  ch  |-> st.ch \/ (st.out[b] # nw)])

RECURSIVE InOutIterate(_, _, _)
InOutIterate(B, I, st) ==
    LET nx == InOutSweep(B, I, 1, [st EXCEPT !.ch = FALSE])
    IN  IF nx.ch THEN InOutIterate(B, I, nx) ELSE nx

buildInNOutSets(B, I) ==
    InOutIterate(B, I, [in  |-> [b \in DOMAIN B |-> {}],
                        out |-> [b \in DOMAIN B |-> GenSet(B, I, b)],
                        ch  |-> TRUE])

\* processStoreInstruction: R without the stores to s's pointer, plus s
processStoreInstruction(B, I, s, R) == (R \ StoresTo(B, I, I[s].ops[2])) \cup {s}

\* allStoresForLoadPtr, as a set: the stores of R that write to the load's pointer
AllStoresForLoadPtr(B, I, l, R) == StoresTo(B, I, I[l].ops[1]) \cap R

\* the element allStoresForLoadPtr[0]: the first such store in function order
FirstStore(B, C) == Head(SelectIn(Flatten(B), C))

\* variant: the stores need not write a constant, only the same value
allStoreWriteSameConstant_anyValue(B, I, C) ==
    LET firstStoreVal == I[FirstStore(B, C)].ops[1]
    IN  \A s \in C : I[s].ops[1] = firstStoreVal

\* variant: only the first store is examined
allStoreWriteSameConstant_firstOnly(B, I, C) ==
    isConstantInt(I[FirstStore(B, C)].ops[1])

\* allStoreWriteSameConstant on a non-empty list
allStoreWriteSameConstant(B, I, C) ==
    LET firstStoreVal == I[FirstStore(B, C)].ops[1]
    IN  /\ isConstantInt(firstStoreVal)
        /\ \A s \in C : isConstantInt(I[s].ops[1]) /\ I[s].ops[1] = firstStoreVal

\* The walk of processBasicBlocks over the flattened function.
\* st = [ins, R, del, repl, oob]; oob: allStoresForLoadPtr[0] was read of an
\* empty vector.  `skip` says what that read did in this build: FALSE stops the
\* walk there (the process dies), TRUE leaves the load alone.
RECURSIVE PropWalk(_, _, _, _, _, _)
PropWalk(B, inSets, b, k, st, skip) ==
    IF b > Len(B) THEN st
    ELSE IF k > Len(B[b])
         THEN IF b + 1 > Len(B) THEN st
              ELSE PropWalk(B, inSets, b + 1, 1, [st EXCEPT !.R = inSets[b + 1]], skip)
    ELSE LET x == B[b][k]
             I == st.ins
         IN  IF I[x].op = "store"
             THEN PropWalk(B, inSets, b, k + 1,
                           [st EXCEPT !.R = processStoreInstruction(B, I, x, st.R)], skip)
             ELSE IF I[x].op = "load"
             THEN LET C == AllStoresForLoadPtr(B, I, x, st.R)
                  IN  IF C = {}
                      THEN IF skip
                           THEN PropWalk(B, inSets, b, k + 1, [st EXCEPT !.oob = TRUE], skip)
                           ELSE [st EXCEPT !.oob = TRUE]
                      ELSE IF allStoreWriteSameConstant(B, I, C)
                      THEN LET c == I[FirstStore(B, C)].ops[1]
                           IN  PropWalk(B, inSets, b, k + 1,
                                   [st EXCEPT !.ins = RAUW(I, x, c),
                                              !.del = @ \cup {x},
                                              !.repl = @ \cup {<<x, c>>}], skip)
                      ELSE PropWalk(B, inSets, b, k + 1, st, skip)
             ELSE PropWalk(B, inSets, b, k + 1, st, skip)

processBasicBlocks(B, I, inSets, skip) ==
    PropWalk(B, inSets, 1, 1,
             [ins |-> I, R |-> inSets[1], del |-> {}, repl |-> {}, oob |-> FALSE], skip)

\* constantPropagation: [ins, del, repl, oob, changed]
constantPropagation(B, I, skip) ==
    LET io == buildInNOutSets(B, I)
        r  == processBasicBlocks(B, I, io.in, skip)
    IN  [ins |-> r.ins, del |-> r.del, repl |-> r.repl, oob |-> r.oob,
         in |-> io.in, out |-> io.out, changed |-> r.del # {}]

(***************************************************************************)
(* Input functions.                                                        *)
(***************************************************************************)
\* a function from its blocks of instructions: identities are the positions in
\* the flattened body
RECURSIVE NumberFrom(_, _)
NumberFrom(bs, n) ==
    IF bs = <<>> THEN <<>>
    ELSE <<[k \in 1..Len(Head(bs)) |-> n + k]>> \o NumberFrom(Tail(bs), n + Len(Head(bs)))

Mk(bs) ==
    LET f == Flatten(bs)
    IN  [blocks |-> NumberFrom(bs, 0), ins |-> [i \in 1..Len(f) |-> f[i]]]

\* tests/test1.c: a = i*10; b = i*10; return a+b
ProgCse ==
    Mk(<< << Alloca, Alloca, Alloca, Store(Arg, 1),
             Load(1), Mul(Rf(5), CI(10)), Store(Rf(6), 2),
             Load(1), Mul(Rf(8), CI(10)), Store(Rf(9), 3),
             Load(2), Load(3), Add(Rf(11), Rf(12)), Ret(Rf(13)) >> >>)

\* return 2+3*4
ProgFold ==
    Mk(<< << Alloca, Store(Arg, 1), Mul(CI(3), CI(4)), Add(CI(2), Rf(3)), Ret(Rf(4)) >> >>)

\* a = 5; b = a + 1; return b
ProgProp ==
    Mk(<< << Alloca, Alloca, Alloca, Store(Arg, 1),
             Store(CI(5), 2), Load(2), Add(Rf(6), CI(1)), Store(Rf(7), 3),
             Load(3), Ret(Rf(9)) >> >>)

\* the same two without the parameter's slot
ProgFoldPure ==
    Mk(<< << Mul(CI(3), CI(4)), Add(CI(2), Rf(1)), Ret(Rf(2)) >> >>)

ProgPropPure ==
    Mk(<< << Alloca, Alloca,
             Store(CI(5), 1), Load(1), Add(Rf(4), CI(1)), Store(Rf(5), 2),
             Load(2), Ret(Rf(7)) >> >>)

\* a = 2147483647; b = a + 1; c = b * a - 3; return c
ProgOverflow ==
    Mk(<< << Alloca, Alloca,
             Store(CI(IntMax), 1), Load(1), Add(Rf(4), CI(1)), Store(Rf(5), 2),
             Load(2), Load(1), Mul(Rf(7), Rf(8)), Sub(Rf(9), CI(3)), Ret(Rf(10)) >> >>)

\* x = read(); a = x + 1; print(x + x); b = x + 1; return a - b
\* with a dead x + 1 ahead of them
ProgCseAdds ==
    Mk(<< << Alloca, Alloca, CallRead,
             Add(Rf(3), CI(1)),
             Add(Rf(3), CI(1)), Store(Rf(5), 1),
             Add(Rf(3), Rf(3)), CallPrint(Rf(7)),
             Add(Rf(3), CI(1)), Store(Rf(9), 2),
             Load(1), Load(2), Sub(Rf(11), Rf(12)), Ret(Rf(13)) >> >>)

\* a = 1; b = a + 1; if (read() > 0) print(b); return b
ProgTwoRounds ==
    Mk(<< << Alloca, Alloca,
             Store(CI(1), 1), Load(1), Add(Rf(4), CI(1)), Store(Rf(5), 2),
             CallRead, ICmp("sgt", Rf(7), CI(0)), CondBr(Rf(8), 3, 2) >>,
          << Load(2), CallPrint(Rf(10)), Br(3) >>,
          << Load(2), Ret(Rf(13)) >> >>)

\* a = 5; if (read() > 0) a = y; else a = z; return a
\* x, y, z: a stored value, or NoVal for no store
NoVal == [k |-> "none", v |-> 0]

OptStore(v, p) == IF v = NoVal THEN <<>> ELSE <<Store(v, p)>>

ProgDiamond(x, y, z) ==
    LET b1 == <<Alloca>> \o OptStore(x, 1)
                  \o <<CallRead, ICmp("sgt", Rf(Len(OptStore(x, 1)) + 2), CI(0)),
                       CondBr(Rf(Len(OptStore(x, 1)) + 3), 3, 2)>>
        b2 == OptStore(y, 1) \o <<Br(4)>>
        b3 == OptStore(z, 1) \o <<Br(4)>>
        n  == Len(b1) + Len(b2) + Len(b3)
    IN  Mk(<<b1, b2, b3, <<Load(1), Ret(Rf(n + 1))>> >>)

\* a = x; while (a < 3) { body }; return a
\* body: a stored constant, IncVal for a = a + 1, or NoVal
IncVal == [k |-> "inc", v |-> 0]

ProgLoop(x, body) ==
    LET b1 == <<Alloca, Store(x, 1), Br(2)>>
        b2 == <<Load(1), ICmp("slt", Rf(4), CI(3)), CondBr(Rf(5), 4, 3)>>
        b3 == IF body = IncVal
              THEN <<Load(1), Add(Rf(7), CI(1)), Store(Rf(8), 1), Br(2)>>
              ELSE OptStore(body, 1) \o <<Br(2)>>
        n  == Len(b1) + Len(b2) + Len(b3)
    IN  Mk(<<b1, b2, b3, <<Load(1), Ret(Rf(n + 1))>> >>)

\* if (p < 0) ...; if (p > 0) ...: both comparisons of the one loaded value
\* sit in the entry block, each steering its own branch
ProgTwoIcmp ==
    Mk(<< << Alloca, Store(Arg, 1), Load(1),
             ICmp("slt", Rf(3), CI(0)), ICmp("sgt", Rf(3), CI(0)),
             CondBr(Rf(4), 3, 2) >>,
          << CondBr(Rf(5), 4, 3) >>,
          << Ret(CI(1)) >>,
          << Ret(CI(0)) >> >>)

\* a = p; b = a; return a + b: the second load of a follows a store to b
ProgLoadsAcrossStore ==
    Mk(<< << Alloca, Alloca, Store(Arg, 1), Load(1), Store(Rf(4), 2),
             Load(1), Load(2), Add(Rf(6), Rf(7)), Ret(Rf(8)) >> >>)

StoredInit == {NoVal, CI(1), CI(2), Arg}
StoredArm  == {NoVal, CI(1), CI(2)}

Corpus ==
    {ProgCse, ProgFold, ProgProp, ProgFoldPure, ProgPropPure, ProgOverflow, ProgCseAdds,
     ProgTwoRounds, ProgTwoIcmp, ProgLoadsAcrossStore}
    \cup {ProgDiamond(x, y, z) : x \in StoredInit, y \in StoredArm, z \in StoredArm}
    \cup {ProgLoop(x, b) : x \in StoredInit \ {NoVal}, b \in StoredArm \cup {IncVal}}

\* Generated single-block functions: one slot, then up to MaxBody instructions
\* drawn from GenMenu, then a return.
MaxBody == 3

GenConsts == {CI(1)}

\* the i32 values an instruction appended to `pre` can take as operand
GenVals(pre) ==
    GenConsts \cup {Rf(i) : i \in {i \in DOMAIN pre : TypeOf(pre[i]) = "i32"}}

GenMenu(pre) ==
    LET V == GenVals(pre)
    IN  {Load(1), CallRead}
        \cup {Store(v, 1) : v \in V}
        \cup {CallPrint(v) : v \in V \ GenConsts}
        \cup {Add(a, b) : a \in V, b \in V}

\* the function being read has one block, holding `pre`
GenSeed == Mk(<< <<Alloca>> >>)

Seeds == Corpus \cup {GenSeed}

(***************************************************************************)
(* optimizeFunction as a state machine: one action per pass.               *)
(***************************************************************************)
Fun == [blocks |-> blocks, ins |-> ins]

\* variant: codeChanged = pass(...)
orCodeChanged_overwrites(passChanged, flag) == passChanged

\* codeChanged = pass(...) || codeChanged
orCodeChanged(passChanged, flag) == passChanged \/ flag

NoPass == [pass |-> "none", blk |-> 0, repl |-> {}, del |-> {}]

NoFun == [blocks |-> <<>>, ins |-> <<>>]

\* codegen is a program of its own: it does not run while the optimizer does
BackIdle ==
    /\ bfun = NoFun
    /\ bpc = "idle"
    /\ ab = 1
    /\ ai = 1
    /\ bbMap = <<>>
    /\ avail = {}
    /\ bbUsedEBX = FALSE
    /\ usedEBX = FALSE
    /\ allocatedRegMap = <<>>
    /\ asm = <<>>
    /\ ip = 0
    /\ reg = [r \in {"eax", "ebx", "ecx", "edx", "esp", "ebp"} |-> 0]
    /\ stack = <<>>
    /\ flags = [zf |-> FALSE, sf |-> FALSE, of |-> FALSE]
    /\ printed = <<>>
    /\ rest = <<>>
    /\ funCounter = 0
    /\ offsetMap = <<>>

\* how the program is called: the full range of calls for the functions in
\* `wide`, a good call for the others
GoodCall == [argc |-> 2, irFile |-> "ok", outDir |-> "writable"]

Calls(p, wide) ==
    IF p \in wide
    THEN [argc : {1, 2, 3}, irFile : {"ok", "unreadable", "unparsable"},
          outDir : {"writable", "readonly"}]
    ELSE {GoodCall}

InitCall(c) ==
    /\ argc = c.argc
    /\ irFile = c.irFile
    /\ outDir = c.outDir
    /\ outFile = "none"
    /\ exitCode = -1

InitOpt ==
    /\ \E p \in Seeds :
          /\ blocks = p.blocks
          /\ ins = p.ins
          /\ orig = p
          /\ prev = p
          /\ snap = p
          /\ head = p
          /\ \E c \in Calls(p, {ProgFold}) : InitCall(c)
    /\ pc = "main"
    /\ bi = 1
    /\ codeChanged = FALSE
    /\ run = 1
    /\ ub = "none"
    /\ last = NoPass
    /\ BackIdle

\* main of the optimizer up to the call of optimizeProgram
MainOptimizer ==
    /\ pc = "main"
    /\ IF argc # 2
       THEN exitCode' = 1 /\ pc' = "exit"
       ELSE IF irFile # "ok"
       THEN exitCode' = 2 /\ pc' = "exit"
       ELSE exitCode' = exitCode /\ pc' = (IF Fun = GenSeed THEN "gen" ELSE "prop")
    /\ UNCHANGED <<blocks, ins, bi, codeChanged, run, ub, orig, prev, last, snap, head,
                   backVars, argc, irFile, outDir, outFile>>

\* main of the optimizer after optimizeProgram: LLVMPrintModuleToFile, whose
\* result is not looked at, and return 0
MainOptimizerWrite ==
    /\ pc = "done"
    /\ outFile' = (IF outDir = "writable" THEN "written" ELSE "failed")
    /\ exitCode' = 0
    /\ pc' = "exit"
    /\ UNCHANGED <<blocks, ins, bi, codeChanged, run, ub, orig, prev, last, snap, head,
                   backVars, argc, irFile, outDir>>

\* The IR reader appends one more instruction to the function it is building.
GenAppend(i, npc) ==
    LET n == Len(blocks[1]) + 1
        f == [blocks |-> <<Append(blocks[1], n)>>,
              ins    |-> [k \in 1..n |-> IF k = n THEN i ELSE ins[k]]]
    IN  /\ blocks' = f.blocks
        /\ ins' = f.ins
        /\ orig' = f
        /\ prev' = f
        /\ snap' = f
        /\ head' = f
        /\ pc' = npc
        /\ UNCHANGED <<bi, codeChanged, run, ub, last, backVars, drvVars>>

GenInstr ==
    /\ pc = "gen"
    /\ Len(blocks[1]) < 1 + MaxBody
    /\ \E i \in GenMenu(ins) : GenAppend(i, "gen")

\* the terminator ends the function; optimizeFunction is called on it
GenRet ==
    /\ pc = "gen"
    /\ \E v \in GenVals(ins) : GenAppend(Ret(v), "prop")

\* what the read of allStoresForLoadPtr[0] on an empty vector can do
UBOutcomes == {"crash", "skip"}

\* codeChanged = constantPropagation(function) || codeChanged, at the loop head
\* (codeChanged was just reset to false)
Propagate ==
    /\ pc = "prop"
    /\ \E o \in (IF ub = "none" THEN UBOutcomes ELSE {ub}) :
          LET r == constantPropagation(blocks, ins, o = "skip")
          IN  /\ ub' = IF r.oob THEN o ELSE ub
              /\ (r.oob \/ o = "crash")
              /\ IF r.oob /\ o = "crash"
                 THEN /\ pc' = "crashed"
                      /\ UNCHANGED <<blocks, ins, codeChanged, bi, last, prev>>
                 ELSE /\ ins' = EraseIns(r.ins, r.del)
                      /\ blocks' = EraseBlocks(blocks, r.del)
                      /\ codeChanged' = orCodeChanged(r.changed, FALSE)
                      /\ bi' = 1
                      /\ pc' = "fold"
                      /\ prev' = Fun
                      /\ last' = [pass |-> "prop", blk |-> 0, repl |-> r.repl, del |-> r.del]
    /\ head' = Fun
    /\ UNCHANGED <<run, orig, snap, backVars, drvVars>>

Fold ==
    /\ pc = "fold"
    /\ LET r == constantFolding(blocks[bi], ins)
       IN  /\ ins' = r.ins
           /\ codeChanged' = orCodeChanged(r.changed, codeChanged)
    /\ pc' = "cse"
    /\ prev' = Fun
    /\ last' = [pass |-> "fold", blk |-> bi, repl |-> {}, del |-> {}]
    /\ UNCHANGED <<blocks, bi, run, ub, orig, snap, head, backVars, drvVars>>

Cse ==
    /\ pc = "cse"
    /\ LET r == commonSubexpressionElimination(blocks[bi], ins)
       IN  /\ ins' = r.ins
           /\ codeChanged' = orCodeChanged(r.changed, codeChanged)
           /\ last' = [pass |-> "cse", blk |-> bi, repl |-> r.repl, del |-> {}]
    /\ pc' = "dce"
    /\ prev' = Fun
    /\ UNCHANGED <<blocks, bi, run, ub, orig, snap, head, backVars, drvVars>>

\* after the last block the while condition is tested
Dce ==
    /\ pc = "dce"
    /\ LET r == deadCodeElimination(blocks[bi], ins)
           ch == orCodeChanged(r.changed, codeChanged)
       IN  /\ ins' = EraseIns(ins, r.del)
           /\ blocks' = EraseBlocks(blocks, r.del)
           /\ last' = [pass |-> "dce", blk |-> bi, repl |-> {}, del |-> r.del]
           /\ IF bi < Len(blocks)
              THEN /\ bi' = bi + 1
                   /\ pc' = "fold"
                   /\ codeChanged' = ch
                   /\ snap' = snap
              ELSE /\ bi' = 1
                   /\ codeChanged' = ch
                   /\ pc' = IF ch THEN "prop" ELSE "done"
                   /\ snap' = IF ~ch /\ run = 1
                              THEN [blocks |-> blocks', ins |-> ins'] ELSE snap
    /\ prev' = Fun
    /\ UNCHANGED <<run, ub, orig, head, backVars, drvVars>>

\* optimizeFunction is called again on the function it returned
Reoptimize ==
    /\ pc = "done"
    /\ run = 1
    /\ run' = 2
    /\ pc' = "prop"
    /\ codeChanged' = FALSE
    /\ last' = NoPass
    /\ UNCHANGED <<blocks, ins, bi, ub, orig, prev, snap, head, backVars, drvVars>>

NextOpt ==
    \/ MainOptimizer \/ GenInstr \/ GenRet \/ Propagate \/ Fold \/ Cse \/ Dce
    \/ Reoptimize \/ MainOptimizerWrite

Spec == InitOpt /\ [][NextOpt]_vars


(***************************************************************************)
(* Register allocation (register_allocation.cpp): linear scan per block.   *)
(***************************************************************************)
EBX == "ebx"
ECX == "ecx"
EDX == "edx"
SPILL == "SPILL"

\* hasResult: everything but store, br, ret and a call of a void function
hasResult(i) == TypeOf(i) # "void"

isArithmetic(i) == i.op \in {"add", "sub", "mul"}

\* instructionList of a block: its instructions without the allocas
instructionList(seq, I) == SelectSeq(seq, LAMBDA x : I[x].op # "alloca")

\* the (index, operand) pairs of the list in the order computeLiveness meets them
OperandRefs(L, I) ==
    Flatten([k \in 1..Len(L) |->
                [j \in 1..Len(I[L[k]].ops) |-> <<k, I[L[k]].ops[j]>>]])

\* computeLiveness: for each value the list defines, the index of its
\* definition followed by the index of each of its uses as an operand
computeLiveness(L, I) ==
    [x \in {y \in Range(L) : hasResult(I[y])} |->
        <<IndexOf(L, x)>> \o
        [n \in 1..Len(SelectSeq(OperandRefs(L, I), LAMBDA r : r[2] = Rf(x))) |->
            SelectSeq(OperandRefs(L, I), LAMBDA r : r[2] = Rf(x))[n][1]]]

back_firstEntry(s) == s[1]

back(s) == s[Len(s)]

\* the operands from position `start` on whose register removeAllocatedRegister
\* returns to the free set at index i
ReleasedOperands(i, start, instr, live, m) ==
    {instr.ops[j].v : j \in {j \in start..Len(instr.ops) :
        /\ instr.ops[j].k = "in"
        /\ instr.ops[j].v \in DOMAIN live
        /\ back(live[instr.ops[j].v]) <= i
        /\ instr.ops[j].v \in DOMAIN m}}

\* removeAllocatedRegister: the free set afterwards
removeAllocatedRegister(i, start, instr, live, m, free) ==
    free \cup {m[y] : y \in ReleasedOperands(i, start, instr, live, m)}

\* selectSpillInstr: the values the scan of the map can return, whatever the
\* order of the unordered_map: a value with a register and the fewest entries
selectSpillInstr_mostUsed(live, m) ==
    LET C == {y \in DOMAIN m : m[y] # SPILL}
    IN  {y \in C : \A z \in C : Len(live[y]) >= Len(live[z])}

selectSpillInstr(live, m) ==
    LET C == {y \in DOMAIN m : m[y] # SPILL}
    IN  {y \in C : \A z \in C : Len(live[y]) <= Len(live[z])}

\* One turn of the loop of allocateRegisterForBasicBlock, for instruction x at
\* index i: the set of [map, free, ebx] it can leave.  The register taken with
\* *availableRegisters.begin() and the victim among equals depend on the
\* iteration order of the unordered containers.
allocateStep(i, x, instr, live, m, free) ==
    IF ~hasResult(instr)
    THEN {[map |-> m, free |-> removeAllocatedRegister(i, 1, instr, live, m, free),
           ebx |-> FALSE]}
    ELSE IF /\ isArithmetic(instr)
            /\ instr.ops[1].k = "in"
            /\ instr.ops[1].v \in DOMAIN m
            /\ back(live[instr.ops[1].v]) = i
    THEN LET m2 == (x :> m[instr.ops[1].v]) @@ m
         IN  {[map |-> m2, free |-> removeAllocatedRegister(i, 2, instr, live, m2, free),
               ebx |-> FALSE]}
    ELSE IF free # {}
    THEN {LET m2 == (x :> r) @@ m
          IN  [map |-> m2,
               free |-> removeAllocatedRegister(i, 1, instr, live, m2, free \ {r}),
               ebx |-> (r = EBX)] : r \in free}
    ELSE {IF Len(live[v]) > Len(live[x])
          THEN [map |-> (x :> SPILL) @@ m, free |-> free, ebx |-> FALSE]
          ELSE LET m2 == (x :> m[v]) @@ (v :> SPILL) @@ m
               IN  [map |-> m2,
                    free |-> removeAllocatedRegister(i, 1, instr, live, m2, free),
                    ebx |-> FALSE] : v \in selectSpillInstr(live, m)}

orUsedEBX_overwrites(flag, basicBlockUsedEBX) == basicBlockUsedEBX

\* usedEBX = usedEBX || basicBlockUsedEBX
orUsedEBX(flag, basicBlockUsedEBX) == flag \/ basicBlockUsedEBX

\* mergeBBWGlobalMap: the entries of the block's map overwrite the global ones
mergeBBWGlobalMap(m, global) == m @@ global

(***************************************************************************)
(* Code generation (codegen.cpp): the assembly emitted for a function.     *)
(***************************************************************************)
EAX == "eax"

\* operands of an assembly instruction
Imm(n)  == [k |-> "imm", v |-> n]        \* $n
Reg(r)  == [k |-> "reg", v |-> r]        \* %r
Mem(o)  == [k |-> "mem", v |-> o]        \* o(%ebp)
Lbl(b)  == [k |-> "lbl", v |-> b]        \* the label of block b: .L(b-1)
Sym(f)  == [k |-> "sym", v |-> f]        \* f@PLT
NoOpnd  == [k |-> "none", v |-> 0]

Asm(o, src, dst) == [o |-> o, s |-> src, d |-> dst]

isParameter_never(I, v) == FALSE

\* isParameter: some store that has v as an operand stores the argument
isParameter(I, v) ==
    \E u \in DOMAIN I :
        /\ I[u].op = "store"
        /\ \E j \in DOMAIN I[u].ops : I[u].ops[j] = v
        /\ I[u].ops[1] = Arg

isSpilledInstruction(x, regMap) == x \in DOMAIN regMap /\ regMap[x] = SPILL

\* populateOffsetMap over the blocks in order; st = [off, localMem, fn]: the
\* offset map, the running localMem and the function the instructions are of
\* (the keys of the map are instructions of the module)
RECURSIVE populateOffsetMap_spillsShareSlot(_, _, _, _, _)
populateOffsetMap_spillsShareSlot(seq, I, regMap, k, st) ==
    IF k > Len(seq) THEN st
    ELSE LET x == seq[k]
         IN  IF I[x].op = "alloca"
             THEN populateOffsetMap_spillsShareSlot(seq, I, regMap, k + 1,
                      [off |-> (<<st.fn, x>> :> -(st.localMem + 4)) @@ st.off,
                       fn |-> st.fn,
                       localMem |-> st.localMem + 4])
             ELSE IF x \in DOMAIN regMap /\ regMap[x] = "SPILL"
             THEN populateOffsetMap_spillsShareSlot(seq, I, regMap, k + 1,
                      [st EXCEPT !.off = (<<st.fn, x>> :> -(st.localMem + 4)) @@ @])
             ELSE populateOffsetMap_spillsShareSlot(seq, I, regMap, k + 1, st)

RECURSIVE populateOffsetMap(_, _, _, _, _)
populateOffsetMap(seq, I, regMap, k, st) ==
    IF k > Len(seq) THEN st
    ELSE LET x == seq[k]
         IN  IF I[x].op = "alloca" \/ isSpilledInstruction(x, regMap)
             THEN IF isParameter(I, Rf(x))
                  THEN populateOffsetMap(seq, I, regMap, k + 1,
                           [st EXCEPT !.off = (<<st.fn, x>> :> 8) @@ @])
                  ELSE populateOffsetMap(seq, I, regMap, k + 1,
                           [off |-> (<<st.fn, x>> :> -(st.localMem + 4)) @@ st.off,
                            fn |-> st.fn,
                            localMem |-> st.localMem + 4])
             ELSE populateOffsetMap(seq, I, regMap, k + 1, st)

\* ctx = [I, reg, off, usedEBX, localMem, fn]: the CodeGenContext
variableIsInRegister(ctx, v) ==
    v.k = "in" /\ v.v \in DOMAIN ctx.reg /\ ctx.reg[v.v] # SPILL

variableIsInMemory(ctx, v) == v.k = "in" /\ <<ctx.fn, v.v>> \in DOMAIN ctx.off

\* context.offsetMap[v]: a missing key reads as 0
OffsetOf(ctx, v) == IF variableIsInMemory(ctx, v) THEN ctx.off[<<ctx.fn, v.v>>] ELSE 0

RegOf(ctx, v) == ctx.reg[v.v]

printFunctionDirectives(ctx) ==
    <<Asm("pushl", Reg("ebp"), NoOpnd), Asm("movl", Reg("esp"), Reg("ebp"))>>
    \o (IF ctx.usedEBX THEN <<Asm("pushl", Reg(EBX), NoOpnd)>> ELSE <<>>)
    \o <<Asm("subl", Imm(ctx.localMem), Reg("esp"))>>

printFunctionEnd == <<Asm("leave", NoOpnd, NoOpnd), Asm("ret", NoOpnd, NoOpnd)>>

\* the default case returns nullptr where a std::string is expected:
\* constructing the string ends the program; "abort" stands for that
getAssemblyOpcodeForPredicate(p) ==
    CASE p = "eq"  -> "je"
      [] p = "ne"  -> "jne"
      [] p = "sgt" -> "jg"
      [] p = "sge" -> "jge"
      [] p = "slt" -> "jl"
      [] p = "sle" -> "jle"
      [] OTHER     -> "abort"

getAssemblyOpcodeForInstruction(i) ==
    CASE i.op = "add"  -> "addl"
      [] i.op = "sub"  -> "subl"
      [] i.op = "mul"  -> "imull"
      [] i.op = "icmp" -> "cmpl"

handleLLVMRet(ctx, x) ==
    LET v == ctx.I[x].ops[1]
    IN  IF isConstantInt(v) THEN <<Asm("movl", Imm(v.v), Reg(EAX))>>
        ELSE IF variableIsInMemory(ctx, v)
        THEN <<Asm("movl", Mem(OffsetOf(ctx, v)), Reg(EAX))>>
        ELSE IF variableIsInRegister(ctx, v)
        THEN <<Asm("movl", Reg(RegOf(ctx, v)), Reg(EAX))>>
        ELSE <<>>

handleLLVMLoad(ctx, x) ==
    LET ptr == ctx.I[x].ops[1]
    IN  IF variableIsInRegister(ctx, Rf(x))
        THEN <<Asm("movl", Mem(OffsetOf(ctx, ptr)), Reg(RegOf(ctx, Rf(x))))>>
        ELSE IF variableIsInMemory(ctx, Rf(x))
        THEN <<Asm("movl", Mem(OffsetOf(ctx, ptr)), Reg(EAX)),
               Asm("movl", Reg(EAX), Mem(OffsetOf(ctx, Rf(x))))>>
        ELSE <<>>

handleLLVMStore(ctx, x) ==
    LET v   == ctx.I[x].ops[1]
        loc == ctx.I[x].ops[2]
    IN  IF isParameter(ctx.I, v) THEN <<>>
        ELSE IF isConstantInt(v)
        THEN <<Asm("movl", Imm(v.v), Mem(OffsetOf(ctx, loc)))>>
        ELSE IF variableIsInRegister(ctx, v)
        THEN <<Asm("movl", Reg(RegOf(ctx, v)), Mem(OffsetOf(ctx, loc)))>>
        ELSE <<Asm("movl", Mem(OffsetOf(ctx, v)), Reg(EAX)),
               Asm("movl", Reg(EAX), Mem(OffsetOf(ctx, loc)))>>

\* variant: the pushed argument is left on the stack
handleLLVMCall_noArgPop(ctx, x) ==
    LET i == ctx.I[x]
        hasParam == i.ops[Len(i.ops)] = FnPrint
        param == i.ops[1]
    IN  <<Asm("pushl", Reg(EBX), NoOpnd), Asm("pushl", Reg(ECX), NoOpnd),
          Asm("pushl", Reg(EDX), NoOpnd)>>
        \o (IF ~hasParam THEN <<>>
            ELSE IF isConstantInt(param) THEN <<Asm("pushl", Imm(param.v), NoOpnd)>>
            ELSE IF variableIsInRegister(ctx, param)
            THEN <<Asm("pushl", Reg(RegOf(ctx, param)), NoOpnd)>>
            ELSE IF variableIsInMemory(ctx, param)
            THEN <<Asm("pushl", Mem(OffsetOf(ctx, param)), NoOpnd)>>
            ELSE <<>>)
        \o <<Asm("call", Sym(IF hasParam THEN "print" ELSE "read"), NoOpnd)>>
        \o <<Asm("popl", NoOpnd, Reg(EDX)), Asm("popl", NoOpnd, Reg(ECX)),
             Asm("popl", NoOpnd, Reg(EBX))>>
        \o (IF TypeOf(i) # "i32" THEN <<>>
            ELSE IF variableIsInRegister(ctx, Rf(x))
            THEN <<Asm("movl", Reg(EAX), Reg(RegOf(ctx, Rf(x))))>>
            ELSE IF variableIsInMemory(ctx, Rf(x))
            THEN <<Asm("movl", Reg(EAX), Mem(OffsetOf(ctx, Rf(x))))>>
            ELSE <<>>)

\* the callee of a call is its last operand; print has one parameter, read none
handleLLVMCall(ctx, x) ==
    LET i == ctx.I[x]
        hasParam == i.ops[Len(i.ops)] = FnPrint
        param == i.ops[1]
    IN  <<Asm("pushl", Reg(EBX), NoOpnd), Asm("pushl", Reg(ECX), NoOpnd),
          Asm("pushl", Reg(EDX), NoOpnd)>>
        \o (IF ~hasParam THEN <<>>
            ELSE IF isConstantInt(param) THEN <<Asm("pushl", Imm(param.v), NoOpnd)>>
            ELSE IF variableIsInRegister(ctx, param)
            THEN <<Asm("pushl", Reg(RegOf(ctx, param)), NoOpnd)>>
            ELSE IF variableIsInMemory(ctx, param)
            THEN <<Asm("pushl", Mem(OffsetOf(ctx, param)), NoOpnd)>>
            ELSE <<>>)
        \o <<Asm("call", Sym(IF hasParam THEN "print" ELSE "read"), NoOpnd)>>
        \o (IF hasParam THEN <<Asm("addl", Imm(4), Reg("esp"))>> ELSE <<>>)
        \o <<Asm("popl", NoOpnd, Reg(EDX)), Asm("popl", NoOpnd, Reg(ECX)),
             Asm("popl", NoOpnd, Reg(EBX))>>
        \o (IF TypeOf(i) # "i32" THEN <<>>
            ELSE IF variableIsInRegister(ctx, Rf(x))
            THEN <<Asm("movl", Reg(EAX), Reg(RegOf(ctx, Rf(x))))>>
            ELSE IF variableIsInMemory(ctx, Rf(x))
            THEN <<Asm("movl", Reg(EAX), Mem(OffsetOf(ctx, Rf(x))))>>
            ELSE <<>>)

\* LLVMGetICmpPredicate: the predicate of an icmp instruction, 0 for a
\* condition that is no icmp
LLVMGetICmpPredicate(I, c) ==
    IF c.k = "in" /\ I[c.v].op = "icmp" THEN I[c.v].pr ELSE "0"

\* A condition without one of the six predicates makes
\* getAssemblyOpcodeForPredicate end the program before anything is written
\* for the branch.
handleLLVMBr(ctx, x) ==
    LET i == ctx.I[x]
    IN  IF Len(i.ops) = 3
        THEN LET jmpInstruction ==
                     getAssemblyOpcodeForPredicate(LLVMGetICmpPredicate(ctx.I, i.ops[1]))
             IN  IF jmpInstruction = "abort"
                 THEN <<Asm("abort", NoOpnd, NoOpnd)>>
                 ELSE <<Asm(jmpInstruction, Lbl(i.ops[3].v), NoOpnd),
                        Asm("jmp", Lbl(i.ops[2].v), NoOpnd)>>
        ELSE <<Asm("jmp", Lbl(i.ops[1].v), NoOpnd)>>

handleBinaryAndComparisonInstructions(ctx, x) ==
    LET i == ctx.I[x]
        operationReg == IF variableIsInRegister(ctx, Rf(x)) THEN RegOf(ctx, Rf(x)) ELSE EAX
        opc == getAssemblyOpcodeForInstruction(i)
        operand1 == i.ops[1]
        operand2 == i.ops[2]
    IN  (IF isConstantInt(operand1)
         THEN <<Asm("movl", Imm(operand1.v), Reg(operationReg))>>
         ELSE IF variableIsInRegister(ctx, operand1)
         THEN IF RegOf(ctx, operand1) # operationReg
              THEN <<Asm("movl", Reg(RegOf(ctx, operand1)), Reg(operationReg))>>
              ELSE <<>>
         ELSE IF variableIsInMemory(ctx, operand1)
         THEN <<Asm("movl", Mem(OffsetOf(ctx, operand1)), Reg(operationReg))>>
         ELSE <<>>)
        \o (IF isConstantInt(operand2)
            THEN <<Asm(opc, Imm(operand2.v), Reg(operationReg))>>
            ELSE IF variableIsInRegister(ctx, operand2)
            THEN <<Asm(opc, Reg(RegOf(ctx, operand2)), Reg(operationReg))>>
            ELSE IF variableIsInMemory(ctx, operand2)
            THEN <<Asm(opc, Mem(OffsetOf(ctx, operand2)), Reg(operationReg))>>
            ELSE <<>>)
        \o (IF variableIsInMemory(ctx, Rf(x))
            THEN <<Asm("movl", Reg(operationReg), Mem(OffsetOf(ctx, Rf(x))))>>
            ELSE <<>>)

\* the switch of generateAssemblyForInstructions
handleInstruction(ctx, x) ==
    LET o == ctx.I[x].op
    IN  CASE o = "ret"    -> handleLLVMRet(ctx, x)
          [] o = "load"   -> handleLLVMLoad(ctx, x)
          [] o = "store"  -> handleLLVMStore(ctx, x)
          [] o = "call"   -> handleLLVMCall(ctx, x)
          [] o = "br"     -> handleLLVMBr(ctx, x)
          [] o = "alloca" -> <<>>
          [] OTHER        -> handleBinaryAndComparisonInstructions(ctx, x)

\* the label of the block, but for .L0, then its instructions
generateAssemblyForInstructions(ctx, B, b) ==
    (IF b # 1 THEN <<Asm("label", Lbl(b), NoOpnd)>> ELSE <<>>)
    \o Flatten([k \in 1..Len(B[b]) |-> handleInstruction(ctx, B[b][k])])

generateAssemblyForBasicBlocks(ctx, B) ==
    printFunctionDirectives(ctx)
    \o Flatten([b \in 1..Len(B) |-> generateAssemblyForInstructions(ctx, B, b)])
    \o printFunctionEnd

\* generateAssemblyForFunction: the context it builds and the code it writes
CodeGenContext(f, regMap, ebxUsed) ==
    LET st == populateOffsetMap(Flatten(f.blocks), f.ins, regMap, 1,
                                [off |-> offsetMap, fn |-> funCounter,
                                 localMem |-> IF ebxUsed THEN 4 ELSE 0])
    IN  [I |-> f.ins, reg |-> regMap, off |-> st.off,
         usedEBX |-> ebxUsed, localMem |-> st.localMem, fn |-> funCounter]

generateAssemblyForFunction(f, regMap, ebxUsed) ==
    generateAssemblyForBasicBlocks(CodeGenContext(f, regMap, ebxUsed), f.blocks)

(***************************************************************************)
(* The 32-bit x86 machine that runs the emitted function.                  *)
(* m = [ip, reg, mem, flags, out, halt]                                    *)
(***************************************************************************)
\* what the caller set up: the stack pointer at the return address, the
\* argument above it, and its own registers
Entry == [esp |-> 64, ebp |-> 96, eax |-> 10, ebx |-> 11, ecx |-> 12, edx |-> 13,
          ret |-> 777, clobber |-> 99]

\* the stack, one cell per 4 bytes
Addrs == {4 * k : k \in 0..20}

ArgVals == {3}
ReadVals == {1, 4}
GarbageVals == {0, 7}

Flags(r, o) == [zf |-> r = 0, sf |-> r < 0, of |-> o]

\* signed overflow of a + b and of a - b
AddOverflows(a, b) == (a >= 0 /\ b >= 0 /\ WAdd(a, b) < 0) \/ (a < 0 /\ b < 0 /\ WAdd(a, b) >= 0)
SubOverflows(a, b) == (a >= 0 /\ b < 0 /\ WSub(a, b) < 0) \/ (a < 0 /\ b >= 0 /\ WSub(a, b) >= 0)

\* the address a memory operand or a push/pop touches is on the modelled stack
Addressable(m, o) == o.k # "mem" \/ (m.reg["ebp"] + o.v) \in Addrs

Val(m, o) ==
    CASE o.k = "imm" -> o.v
      [] o.k = "reg" -> m.reg[o.v]
      [] o.k = "mem" -> m.mem[m.reg["ebp"] + o.v]

Put(m, o, v) ==
    IF o.k = "reg" THEN [m EXCEPT !.reg[o.v] = v]
    ELSE [m EXCEPT !.mem[m.reg["ebp"] + o.v] = v]

LabelPos(code, b) ==
    CHOOSE n \in DOMAIN code : code[n].o = "label" /\ code[n].s.v = b

\* the condition a conditional jump tests
Taken(jcc, f) ==
    CASE jcc = "je"  -> f.zf
      [] jcc = "jne" -> ~f.zf
      [] jcc = "jg"  -> ~f.zf /\ (f.sf = f.of)
      [] jcc = "jge" -> f.sf = f.of
      [] jcc = "jl"  -> f.sf # f.of
      [] jcc = "jle" -> f.zf \/ (f.sf # f.of)

\* an external function returns: eax holds v, the caller-saved registers and
\* the stack below %esp hold what the callee left there
Returning(m, v) ==
    [m EXCEPT !.reg = [@ EXCEPT ![EAX] = v, ![ECX] = Entry.clobber, ![EDX] = Entry.clobber],
              !.mem = [a \in Addrs |-> IF a < m.reg["esp"] THEN Entry.clobber ELSE m.mem[a]]]

Arith(o, a, b) ==
    CASE o = "addl"  -> [r |-> WAdd(a, b), f |-> Flags(WAdd(a, b), AddOverflows(a, b))]
      [] o = "subl"  -> [r |-> WSub(a, b), f |-> Flags(WSub(a, b), SubOverflows(a, b))]
      [] o = "imull" -> [r |-> WMul(a, b), f |-> Flags(WMul(a, b), FALSE)]

\* the machine states one instruction can lead to
MStep(code, m) ==
    LET a  == code[m.ip]
        nx == [m EXCEPT !.ip = @ + 1]
        sp == m.reg["esp"]
        fault == {[m EXCEPT !.halt = "fault"]}
    IN  IF ~Addressable(m, a.s) \/ ~Addressable(m, a.d) THEN fault
        ELSE CASE a.o = "label" -> {nx}
          [] a.o = "movl" -> {Put(nx, a.d, Val(m, a.s))}
          [] a.o \in {"addl", "subl", "imull"} ->
                LET c == Arith(a.o, Val(m, a.d), Val(m, a.s))
                IN  {[Put(nx, a.d, c.r) EXCEPT !.flags = c.f]}
          [] a.o = "cmpl" ->
                {[nx EXCEPT !.flags = Arith("subl", Val(m, a.d), Val(m, a.s)).f]}
          [] a.o = "pushl" ->
                IF (sp - 4) \notin Addrs THEN fault
                ELSE {[nx EXCEPT !.reg["esp"] = sp - 4, !.mem[sp - 4] = Val(m, a.s)]}
          [] a.o = "popl" ->
                IF sp \notin Addrs THEN fault
                ELSE {[Put(nx, a.d, m.mem[sp]) EXCEPT !.reg["esp"] = sp + 4]}
          [] a.o = "jmp" -> {[m EXCEPT !.ip = LabelPos(code, a.s.v)]}
          [] a.o \in {"je", "jne", "jg", "jge", "jl", "jle"} ->
                {IF Taken(a.o, m.flags) THEN [m EXCEPT !.ip = LabelPos(code, a.s.v)] ELSE nx}
          [] a.o = "call" ->
                IF a.s.v = "read" THEN {Returning(nx, v) : v \in ReadVals}
                ELSE IF sp \notin Addrs THEN fault
                ELSE {[Returning(nx, Entry.clobber) EXCEPT !.out = Append(@, m.mem[sp])]}
          [] a.o = "leave" ->
                IF m.reg["ebp"] \notin Addrs THEN fault
                ELSE {[nx EXCEPT !.reg["esp"] = m.reg["ebp"] + 4,
                                 !.reg["ebp"] = m.mem[m.reg["ebp"]]]}
          [] a.o = "ret" ->
                IF sp \notin Addrs THEN fault
                ELSE {[m EXCEPT !.reg["esp"] = sp + 4, !.halt = "returned"]}

(***************************************************************************)
(* Functions given to codegen.                                             *)
(***************************************************************************)
\* p is the parameter: x = p; y = x + x; z = p; return y + z
BackAlias ==
    Mk(<< << Alloca, Store(Arg, 1),
             Load(1), Add(Rf(3), Rf(3)), Load(1), Add(Rf(4), Rf(5)), Ret(Rf(6)) >> >>)

\* a = read(); b = read(); c = read(); d = read(); return (a + b) + (c + d)
BackSpill ==
    Mk(<< << CallRead, CallRead, CallRead, CallRead,
             Add(Rf(1), Rf(2)), Add(Rf(3), Rf(4)), Add(Rf(5), Rf(6)), Ret(Rf(7)) >> >>)

\* print(p); then four values live at once, each used twice
BackDeadVictim ==
    Mk(<< << Alloca, Store(Arg, 1),
             Load(1), CallPrint(Rf(3)),
             Load(1), Load(1), Load(1), Load(1),
             CallPrint(Rf(5)), CallPrint(Rf(6)), CallPrint(Rf(7)), CallPrint(Rf(8)),
             Add(Rf(5), Rf(6)), Add(Rf(7), Rf(8)), Add(Rf(13), Rf(14)), Ret(Rf(15)) >> >>)

\* five loads of p held at once, then printed in the order P (1..5 name them)
BackFive(P) ==
    Mk(<< << Alloca, Store(Arg, 1), Load(1), Load(1), Load(1), Load(1), Load(1) >>
          \o [k \in 1..Len(P) |-> CallPrint(Rf(2 + P[k]))]
          \o << Ret(CI(0)) >> >>)

FiveUses ==
    { <<1, 2, 3, 4, 5>>,
      <<1, 2, 3, 4, 5, 2, 3, 4, 5, 2, 3>>,
      <<1, 2, 3, 4, 5, 1, 2, 3>> }

\* a = p; b = read(); c = a + b; d = p; e = d * 2; all five used afterwards
BackFiveMixed ==
    Mk(<< << Alloca, Store(Arg, 1),
             Load(1), CallRead, Add(Rf(3), Rf(4)), Load(1), Mul(Rf(6), CI(2)),
             CallPrint(Rf(3)), CallPrint(Rf(4)), CallPrint(Rf(6)), CallPrint(Rf(5)),
             CallPrint(Rf(5)), Ret(Rf(7)) >> >>)

\* a = p; print(a); b = a + 1; then three values used more often than b
BackReuseVictim ==
    Mk(<< << Alloca, Store(Arg, 1),
             Load(1), CallPrint(Rf(3)), Add(Rf(3), CI(1)),
             Load(1), Load(1), Load(1),
             CallPrint(Rf(6)), CallPrint(Rf(7)), CallPrint(Rf(8)),
             CallPrint(Rf(6)), CallPrint(Rf(7)), CallPrint(Rf(8)),
             Ret(Rf(5)) >> >>)

\* x = p; y = x; return y
BackTwoSlots ==
    Mk(<< << Alloca, Alloca, Store(Arg, 1), Load(1), Store(Rf(4), 2), Load(2),
             Ret(Rf(6)) >> >>)

\* a = 1; while (a < 3) { a = 1; } return a, as the optimizer returns it: the
\* loop header branches on the constant the comparison was folded to
BackConstBranch ==
    Mk(<< << Alloca, Store(CI(1), 1), Br(2) >>,
          << CondBr(CB(1), 4, 3) >>,
          << Store(CI(1), 1), Br(2) >>,
          << Ret(CI(1)) >> >>)

\* if (p <u 3) return 1; return 0: an unsigned comparison
BackUnsigned ==
    Mk(<< << Alloca, Store(Arg, 1), Load(1), ICmp("ult", Rf(3), CI(3)),
             CondBr(Rf(4), 3, 2) >>,
          << Ret(CI(1)) >>,
          << Ret(CI(0)) >> >>)

\* if (p > 0) return 1; return 0
BackEarlyReturn ==
    Mk(<< << Alloca, Store(Arg, 1), Load(1), ICmp("sgt", Rf(3), CI(0)),
             CondBr(Rf(4), 3, 2) >>,
          << Ret(CI(1)) >>,
          << Ret(CI(0)) >> >>)

\* three loads of p, each used twice; t = 1 + (the first) is its last use
\* and t is used once
BackLeak ==
    Mk(<< << Alloca, Store(Arg, 1), Load(1), Load(1), Load(1),
             CallPrint(Rf(3)), Add(CI(1), Rf(3)),
             CallPrint(Rf(4)), CallPrint(Rf(4)), CallPrint(Rf(5)), CallPrint(Rf(5)),
             Ret(Rf(7)) >> >>)

BackCorpus ==
    {BackLeak, BackEarlyReturn, BackAlias, BackSpill, BackDeadVictim, ProgCse, ProgTwoRounds,
     ProgDiamond(CI(1), CI(2), NoVal), ProgLoop(Arg, IncVal), BackFiveMixed,
     BackReuseVictim, BackTwoSlots, BackConstBranch, BackUnsigned}
    \cup {BackFive(P) : P \in FiveUses}

\* modules of two functions: a first function out of BackFirst, then one
\* out of BackSecond
BackFirst == {BackTwoSlots, BackFive(<<1, 2, 3, 4, 5>>)}

BackSecond == {BackTwoSlots, BackFive(<<1, 2, 3, 4, 5>>)}

\* generated single-block functions, as for the optimizer
MaxAllocBody == 2

BackMenu(pre) ==
    LET V == GenVals(pre)
    IN  {Load(1)}
        \cup {Store(v, 1) : v \in V}
        \cup {Add(a, b) : a \in V, b \in V}

BackSeeds == BackCorpus \cup {GenSeed}

(***************************************************************************)
(* generateAssemblyCode as a state machine.                                *)
(***************************************************************************)
OptIdle ==
    /\ blocks = <<>> /\ ins = <<>>
    /\ pc = "idle"
    /\ bi = 1
    /\ codeChanged = FALSE
    /\ run = 1
    /\ ub = "none"
    /\ orig = NoFun /\ prev = NoFun /\ snap = NoFun /\ head = NoFun
    /\ last = NoPass

Registers == {EBX, ECX, EDX}

InitBack ==
    /\ OptIdle
    /\ \E p \in BackSeeds :
          /\ bfun = p
          /\ \E c \in Calls(p, {BackTwoSlots}) : InitCall(c)
          /\ rest \in IF p \in BackFirst THEN {<<>>} \cup {<<g>> : g \in BackSecond}
                                         ELSE {<<>>}
    /\ bpc = "main"
    /\ ab = 1
    /\ ai = 1
    /\ bbMap = <<>>
    /\ avail = Registers
    /\ bbUsedEBX = FALSE
    /\ usedEBX = FALSE
    /\ allocatedRegMap = <<>>
    /\ asm = <<>>
    /\ ip = 0
    /\ reg = [r \in {"eax", "ebx", "ecx", "edx", "esp", "ebp"} |-> 0]
    /\ stack = <<>>
    /\ flags = [zf |-> FALSE, sf |-> FALSE, of |-> FALSE]
    /\ printed = <<>>
    /\ funCounter = 0
    /\ offsetMap = <<>>

\* createLLVMModel reads one more instruction of the function
BackAppend(i, npc) ==
    LET n == Len(bfun.blocks[1]) + 1
    IN  /\ bfun' = [blocks |-> <<Append(bfun.blocks[1], n)>>,
                    ins    |-> [k \in 1..n |-> IF k = n THEN i ELSE bfun.ins[k]]]
        /\ bpc' = npc
        /\ UNCHANGED <<ab, ai, bbMap, avail, bbUsedEBX, usedEBX, allocatedRegMap, machVars,
                     modVars, optVars, drvVars>>

BackGenInstr ==
    /\ bpc = "gen"
    /\ Len(bfun.blocks[1]) < 1 + MaxAllocBody
    /\ \E i \in BackMenu(bfun.ins) : BackAppend(i, "gen")

BackGenRet ==
    /\ bpc = "gen"
    /\ \E v \in GenVals(bfun.ins) : BackAppend(Ret(v), "open")

\* main of codegen up to the call of generateAssemblyCode
MainCodegen ==
    /\ bpc = "main"
    /\ IF argc # 2
       THEN exitCode' = 1 /\ bpc' = "exit"
       ELSE IF irFile # "ok"
       THEN exitCode' = 2 /\ bpc' = "exit"
       ELSE exitCode' = exitCode /\ bpc' = (IF bfun = GenSeed THEN "gen" ELSE "open")
    /\ UNCHANGED <<bfun, ab, ai, bbMap, avail, bbUsedEBX, usedEBX, allocatedRegMap,
                   machVars, modVars, optVars, argc, irFile, outDir, outFile>>

\* openOutputFile: generateAssemblyCode goes on with the stream it returns,
\* open or not
OpenOutput ==
    /\ bpc = "open"
    /\ outFile' = (IF outDir = "writable" THEN "open" ELSE "failed")
    /\ bpc' = "alloc"
    /\ UNCHANGED <<bfun, ab, ai, bbMap, avail, bbUsedEBX, usedEBX, allocatedRegMap,
                   machVars, modVars, optVars, argc, irFile, outDir, exitCode>>

\* the list and the live-usage table of the block being allocated
CurList == instructionList(bfun.blocks[ab], bfun.ins)
CurLive == computeLiveness(CurList, bfun.ins)

\* allocateRegisterForBasicBlock: one turn of its loop
AllocInstr ==
    /\ bpc = "alloc"
    /\ ai <= Len(CurList)
    /\ \E o \in allocateStep(ai, CurList[ai], bfun.ins[CurList[ai]], CurLive, bbMap, avail) :
          /\ bbMap' = o.map
          /\ avail' = o.free
          /\ bbUsedEBX' = (bbUsedEBX \/ o.ebx)
    /\ ai' = ai + 1
    /\ UNCHANGED <<bfun, bpc, ab, usedEBX, allocatedRegMap, machVars, modVars, optVars, drvVars>>

\* allocateRegisterForBasicBlock returns; allocateRegisterForFunction goes to
\* the next block or returns
AllocBlockEnd ==
    /\ bpc = "alloc"
    /\ ai > Len(CurList)
    /\ allocatedRegMap' = mergeBBWGlobalMap(bbMap, allocatedRegMap)
    /\ usedEBX' = orUsedEBX(usedEBX, bbUsedEBX)
    /\ IF ab < Len(bfun.blocks)
       THEN /\ ab' = ab + 1
            /\ ai' = 1
            /\ bbMap' = <<>>
            /\ avail' = Registers
            /\ bbUsedEBX' = FALSE
            /\ bpc' = "alloc"
       ELSE /\ bpc' = "emit"
            /\ UNCHANGED <<ab, ai, bbMap, avail, bbUsedEBX>>
    /\ UNCHANGED <<bfun, machVars, modVars, optVars, drvVars>>

\* generateAssemblyForFunction writes the function; in a DEBUG build a value
\* that is in neither map ends the program
Emit ==
    /\ bpc = "emit"
    /\ LET code == generateAssemblyForFunction(bfun, allocatedRegMap, usedEBX)
       IN  /\ asm' = code
           /\ bpc' = IF \E n \in DOMAIN code : code[n].o = "abort"
                     THEN "crashed" ELSE "call"
           /\ exitCode' = IF rest = <<>> /\ \A n \in DOMAIN code : code[n].o # "abort"
                          THEN 0 ELSE exitCode
    /\ offsetMap' = CodeGenContext(bfun, allocatedRegMap, usedEBX).off
    /\ outFile' = (IF outFile = "open" THEN "written" ELSE outFile)
    /\ UNCHANGED <<bfun, ab, ai, bbMap, avail, bbUsedEBX, usedEBX, allocatedRegMap,
                   ip, reg, stack, flags, printed, rest, funCounter, optVars,
                   argc, irFile, outDir>>

\* generateAssemblyCode goes to the next function of the module
NextFunction ==
    /\ bpc = "call"
    /\ rest # <<>>
    /\ bfun' = Head(rest)
    /\ rest' = Tail(rest)
    /\ funCounter' = funCounter + 1
    /\ bpc' = "alloc"
    /\ ab' = 1
    /\ ai' = 1
    /\ bbMap' = <<>>
    /\ avail' = Registers
    /\ bbUsedEBX' = FALSE
    /\ usedEBX' = FALSE
    /\ allocatedRegMap' = <<>>
    /\ asm' = <<>>
    /\ UNCHANGED <<ip, reg, stack, flags, printed, offsetMap, optVars, drvVars>>

\* the caller calls the function: the return address is at (%esp), the
\* argument above it, anything in the rest of the stack
Enter ==
    /\ bpc = "call"
    /\ \E a \in ArgVals, g \in GarbageVals :
          stack' = [x \in Addrs |-> IF x = Entry.esp THEN Entry.ret
                                  ELSE IF x = Entry.esp + 4 THEN a ELSE g]
    /\ reg' = [r \in {"eax", "ebx", "ecx", "edx", "esp", "ebp"} |-> Entry[r]]
    /\ ip' = 1
    /\ bpc' = "run"
    /\ UNCHANGED <<bfun, ab, ai, bbMap, avail, bbUsedEBX, usedEBX, allocatedRegMap,
                   asm, flags, printed, modVars, optVars, drvVars>>

\* the machine executes one instruction of the function
Exec ==
    /\ bpc = "run"
    /\ \E n \in MStep(asm, [ip |-> ip, reg |-> reg, mem |-> stack, flags |-> flags,
                            out |-> printed, halt |-> "run"]) :
          /\ ip' = n.ip
          /\ reg' = n.reg
          /\ stack' = n.mem
          /\ flags' = n.flags
          /\ printed' = n.out
          /\ bpc' = n.halt
    /\ UNCHANGED <<bfun, ab, ai, bbMap, avail, bbUsedEBX, usedEBX, allocatedRegMap,
                   asm, modVars, optVars, drvVars>>

NextBack ==
    \/ MainCodegen \/ BackGenInstr \/ BackGenRet \/ OpenOutput
    \/ AllocInstr \/ AllocBlockEnd \/ Emit \/ NextFunction
    \/ Enter \/ Exec

SpecBack == InitBack /\ [][NextBack]_vars

(***************************************************************************)
(* Properties of the optimizer.                                            *)
(***************************************************************************)
Opcodes(I, seq) == [k \in 1..Len(seq) |-> I[seq[k]].op]

\* the instructions of `f` that are calls
CallsOf(f) == {c \in DOMAIN f.ins : f.ins[c].op = "call"}

\* C1: optimizeFunction terminates on every function, also on one that calls
\* read() twice: its loop eventually runs a round in which no pass reports a
\* change.  The passes are functions of the IR, so a round that reports a
\* change and hands the loop head the very function it started from repeats
\* for ever: termination needs that no such round exists.
C1_Terminates == ~(pc = "prop" /\ codeChanged /\ Fun = head)

\* C3: common-subexpression elimination replaces the uses of pure computations
\* only, so a store or a return that consumed the result of a call still
\* consumes the result of that same call: a call is never replaced by an
\* earlier call.
C3_CallsNotMerged ==
    /\ last.pass = "cse" =>
          \A r \in last.repl : prev.ins[r[1]].op \in {"add", "sub", "mul", "icmp", "load"}
    /\ \A u \in DOMAIN ins :
          ins[u].op \in {"store", "ret"} =>
             \A j \in DOMAIN ins[u].ops :
                orig.ins[u].ops[j] \in {Rf(c) : c \in CallsOf(orig)}
                   => ins[u].ops[j] = orig.ins[u].ops[j]

\* the stores to pointer p that are last on some path ending just above
\* position k + 1 of block b; `seen`: the blocks the path crossed whole
RECURSIVE BackScan(_, _, _, _, _, _)
BackScan(B, I, p, b, k, seen) ==
    IF k = 0
    THEN UNION {BackScan(B, I, p, q, Len(B[q]), seen \cup {q}) : q \in Preds(B, I, b) \ seen}
    ELSE IF I[B[b][k]].op = "store" /\ I[B[b][k]].ops[2] = p
         THEN {B[b][k]}
         ELSE BackScan(B, I, p, b, k - 1, seen)

\* the stores that reach load l along the paths of the control-flow graph
PathReachingStores(B, I, l) ==
    LET b == BlockOf(B, l)
    IN  BackScan(B, I, I[l].ops[1], b, IndexOf(B[b], l) - 1, {})

\* C5: whenever constantPropagation replaces a load l of pointer p by a
\* constant c, every store to p that is the last one on some path from the
\* entry to l writes c; stores of two different constants that meet at a merge
\* block leave the load there alone.
C5_PropagationSound ==
    last.pass = "prop" =>
       \A r \in last.repl :
          \A s \in PathReachingStores(prev.blocks, prev.ins, r[1]) :
             ins[s].ops[1] = r[2]

\* a load below a merge was replaced: the stores of both arms reach it
C5_Witness ==
    /\ last.pass = "prop"
    /\ \E r \in last.repl :
          Cardinality(PathReachingStores(prev.blocks, prev.ins, r[1])) >= 2

\* C6: a second call of optimizeFunction on the function the first call
\* returned replaces no use and erases no instruction: no pass reports a
\* change and the function stays what the first call left.
C6_Idempotent ==
    run = 2 => /\ Fun = snap
               /\ ~codeChanged
               /\ pc # "crashed"

\* the second call has returned, on a function the first call had changed
C6_Witness == run = 2 /\ pc = "done" /\ snap # orig

EqualPure(B, I, b, x, y) ==
    /\ x \in Range(B[b]) /\ y \in Range(B[b])
    /\ IndexOf(B[b], x) < IndexOf(B[b], y)
    /\ I[x].op \in {"add", "sub", "mul", "icmp"}
    /\ I[x].op = I[y].op
    /\ I[x].ops = I[y].ops

SameOperandSource(f, b, a, c) ==
    \/ a.k = "ci" /\ a = c
    \/ /\ a.k = "in" /\ c.k = "in"
       /\ a.v \in Range(f.blocks[b]) /\ c.v \in Range(f.blocks[b])
       /\ f.ins[a.v].op = "load" /\ f.ins[c.v].op = "load"
       /\ f.ins[a.v].ops = f.ins[c.v].ops
       /\ LET ia == IndexOf(f.blocks[b], a.v)
              ic == IndexOf(f.blocks[b], c.v)
          IN  \A m \in (Min({ia, ic}) + 1)..(Max({ia, ic}) - 1) :
                 LET i == f.ins[f.blocks[b][m]]
                 IN  ~(i.op = "store" /\ i.ops[2] = f.ins[a.v].ops[1])

\* x ahead of y in block b of f: the same computation written twice
SameComputation(f, b, x, y) ==
    /\ x \in Range(f.blocks[b]) /\ y \in Range(f.blocks[b])
    /\ IndexOf(f.blocks[b], x) < IndexOf(f.blocks[b], y)
    /\ f.ins[x].op \in {"add", "sub", "mul"}
    /\ f.ins[x].op = f.ins[y].op
    /\ \A m \in 1..2 : SameOperandSource(f, b, f.ins[x].ops[m], f.ins[y].ops[m])

\* the users of y in f that are still in the function refer to x instead
UsesMovedTo(f, y, x) ==
    \A u \in UsesOf(f.ins, y) : u[1] \in DOMAIN ins => ins[u[1]].ops[u[2]] = Rf(x)

\* C9 as stated: when two add/sub/mul of a block have the same opcode and
\* operands that are equal constants or loads of one slot with no store
\* between, then after optimizeFunction only the earlier one remains in the
\* block and every former use of the later one refers to the earlier one.
C9_EarlierRemains ==
    pc = "done" =>
       \A b \in DOMAIN blocks : \A x, y \in Range(orig.blocks[b]) :
          SameComputation(orig, b, x, y) =>
             /\ x \in Range(blocks[b])
             /\ y \notin Range(blocks[b])
             /\ UsesMovedTo(orig, y, x)

\* C9 amended: when two add/sub/mul of a block have the same opcode and
\* operands that are equal constants or loads of one slot with no store
\* between, then after optimizeFunction at most one of the two remains in the
\* block, and if the earlier one remains then every former use of the later
\* one that is still in the function refers to the earlier one.
C9_AtMostOneRemains ==
    pc = "done" =>
       \A b \in DOMAIN blocks : \A x, y \in Range(orig.blocks[b]) :
          SameComputation(orig, b, x, y) =>
             /\ ~(x \in Range(blocks[b]) /\ y \in Range(blocks[b]))
             /\ x \in Range(blocks[b]) => UsesMovedTo(orig, y, x)

\* the optimizer returned a function in which the earlier of two equal
\* computations took over a use of the later one
C9_Witness ==
    /\ pc = "done"
    /\ \E b \in DOMAIN blocks : \E x, y \in Range(orig.blocks[b]) :
          /\ SameComputation(orig, b, x, y)
          /\ x \in Range(blocks[b]) /\ y \notin Range(blocks[b])
          /\ \E u \in UsesOf(orig.ins, y) : u[1] \in DOMAIN ins /\ ins[u[1]].ops[u[2]] = Rf(x)

\* an operand built from constants, loads and add/sub/mul only
ComputedValue(f, v) ==
    \/ v.k = "ci"
    \/ v.k = "in" /\ f.ins[v.v].op \in {"load", "add", "sub", "mul"}

\* f is one block of slots, stores, loads, add/sub/mul and a return; every
\* load follows a store to its slot
StraightLine(f) ==
    /\ Len(f.blocks) = 1
    /\ \A k \in DOMAIN f.blocks[1] :
          LET i == f.ins[f.blocks[1][k]]
          IN  /\ i.op \in {"alloca", "store", "load", "add", "sub", "mul", "ret"}
              /\ i.op \in {"add", "sub", "mul", "ret"} =>
                    \A m \in DOMAIN i.ops : ComputedValue(f, i.ops[m])
              /\ i.op = "store" => ComputedValue(f, i.ops[1])
              /\ i.op = "load" =>
                    \E m \in 1..(k - 1) :
                       LET j == f.ins[f.blocks[1][m]]
                       IN  j.op = "store" /\ j.ops[2] = i.ops[1]

ValueIn(env, v) == IF v.k = "ci" THEN v.v ELSE env[v.v]

\* the value a straight-line function returns, by executing it: env holds the
\* results so far, mem the contents of the slots
RECURSIVE Execute(_, _, _, _)
Execute(f, k, env, mem) ==
    LET x == f.blocks[1][k]
        i == f.ins[x]
    IN  CASE i.op = "ret"    -> ValueIn(env, i.ops[1])
          [] i.op = "alloca" -> Execute(f, k + 1, env, mem)
          [] i.op = "store"  ->
                Execute(f, k + 1, env, [mem EXCEPT ![i.ops[2].v] = ValueIn(env, i.ops[1])])
          [] i.op = "load"   ->
                Execute(f, k + 1, [env EXCEPT ![x] = mem[i.ops[1].v]], mem)
          [] i.op = "add"    ->
                Execute(f, k + 1,
                        [env EXCEPT ![x] = WAdd(ValueIn(env, i.ops[1]), ValueIn(env, i.ops[2]))], mem)
          [] i.op = "sub"    ->
                Execute(f, k + 1,
                        [env EXCEPT ![x] = WSub(ValueIn(env, i.ops[1]), ValueIn(env, i.ops[2]))], mem)
          [] i.op = "mul"    ->
                Execute(f, k + 1,
                        [env EXCEPT ![x] = WMul(ValueIn(env, i.ops[1]), ValueIn(env, i.ops[2]))], mem)

Returned(f) ==
    Execute(f, 1, [x \in DOMAIN f.ins |-> 0], [x \in DOMAIN f.ins |-> 0])

\* C10: for a single-block function whose stored and returned values are built
\* from constants, loads of slots stored earlier in the block and add/sub/mul,
\* after optimizeFunction no load, add, sub or mul remains and the return's
\* operand is the constant the source expression evaluates to.
C10_EvaluatedToConstant ==
    pc = "done" /\ StraightLine(orig) =>
       /\ \A x \in Range(blocks[1]) : ins[x].op \notin {"load", "add", "sub", "mul"}
       /\ ins[blocks[1][Len(blocks[1])]] = Ret(CI(Returned(orig)))

\* the optimizer returned `ret c` for a function that loaded a slot and
\* computed with it
C10_Witness ==
    /\ pc = "done" /\ StraightLine(orig)
    /\ \E x, y \in Range(orig.blocks[1]) :
          /\ orig.ins[x].op = "load"
          /\ orig.ins[y].op \in {"add", "sub", "mul"}
          /\ Rf(x) \in Range(orig.ins[y].ops)
    /\ ins[blocks[1][Len(blocks[1])]] = Ret(CI(Returned(orig)))

(***************************************************************************)
(* Properties of the backend.                                              *)
(***************************************************************************)
\* the live range of a value: from its definition to its last use
RangesOverlap(lx, ly) == lx[1] <= back(ly) /\ ly[1] <= back(lx)

\* y is an arithmetic instruction that took over the register of its first
\* operand x at x's last use
TwoAddressReuse(x, y, live) ==
    /\ isArithmetic(bfun.ins[y])
    /\ bfun.ins[y].ops[1] = Rf(x)
    /\ back(live[x]) = live[y][1]

\* C2: after allocateRegisterForBasicBlock, two distinct values of the block
\* tagged with the same physical register have live ranges that do not
\* overlap, but for the one index at which the last use of one defines the
\* other by two-address reuse.
C2_NoAliasing ==
    bpc = "alloc" /\ ai > Len(CurList) =>
       \A x, y \in DOMAIN bbMap :
          x # y /\ bbMap[x] = bbMap[y] /\ bbMap[x] \in Registers =>
             \/ ~RangesOverlap(CurLive[x], CurLive[y])
             \/ TwoAddressReuse(x, y, CurLive)
             \/ TwoAddressReuse(y, x, CurLive)

\* C4: when ret is about to execute, %ebp holds its value at entry, %ebx
\* holds its value at entry if the prologue pushed it, and %esp points at the
\* return address
C4_FrameDiscipline ==
    bpc = "run" /\ asm[ip].o = "ret" =>
       /\ reg["ebp"] = Entry.ebp
       /\ usedEBX => reg["ebx"] = Entry.ebx
       /\ reg["esp"] = Entry.esp

\* the frame size the prologue subtracts from %esp
FrameSize == asm[IF usedEBX THEN 4 ELSE 3].s.v

\* codegen has written the function
Emitted == bpc \in {"call", "run", "returned", "fault"}

\* the function is one block that defines five values, all of them defined
\* before any of them is used for the last time
FiveOverlapping ==
    /\ Len(bfun.blocks) = 1
    /\ LET live == CurLive
       IN  /\ Cardinality(DOMAIN live) = 5
           /\ \A x, y \in DOMAIN live : live[x][1] < back(live[y])

Spilled == {x \in DOMAIN allocatedRegMap : allocatedRegMap[x] = SPILL}

\* C11: in a block that defines five values that are all live at once, three
\* of them end with the three registers EBX, ECX, EDX, one each, the two with
\* the fewest entries in the live-usage table end as SPILL, and the frame is 8
\* bytes larger than it is for the same function without spills
C11_SpillTwoOfFive ==
    Emitted /\ FiveOverlapping =>
       LET K == DOMAIN allocatedRegMap \ Spilled
           live == CurLive
       IN  /\ DOMAIN allocatedRegMap = DOMAIN live
           /\ Cardinality(Spilled) = 2
           /\ Cardinality(K) = 3
           /\ {allocatedRegMap[x] : x \in K} = Registers
           /\ \A z \in Spilled, r \in K : Len(live[z]) <= Len(live[r])
           /\ FrameSize = CodeGenContext(bfun, <<>>, usedEBX).localMem + 8

\* five values live at once, and one of the first three lost its register
C11_Witness ==
    /\ bpc = "returned"
    /\ FiveOverlapping
    /\ \E z \in Spilled : z <= 5

\* the live-usage table of block b
BlockLive(b) == computeLiveness(instructionList(bfun.blocks[b], bfun.ins), bfun.ins)

\* the pairs <<t1, t2>>: t2 is an add, sub or mul whose first operand t1 is
\* tagged with a register in the returned map and is used for the last time by t2
ReuseSites ==
    {p \in (DOMAIN allocatedRegMap) \X (DOMAIN bfun.ins) :
        /\ isArithmetic(bfun.ins[p[2]])
        /\ bfun.ins[p[2]].ops[1].k = "in"
        /\ bfun.ins[p[2]].ops[1].v = p[1]
        /\ allocatedRegMap[p[1]] \in Registers
        /\ LET b    == BlockOf(bfun.blocks, p[2])
               live == BlockLive(b)
           IN  /\ p[1] \in DOMAIN live
               /\ live[p[1]][Len(live[p[1]])]
                     = IndexOf(instructionList(bfun.blocks[b], bfun.ins), p[2])}

\* the instructions written for the value x
CodeFor(x) ==
    handleBinaryAndComparisonInstructions(CodeGenContext(bfun, allocatedRegMap, usedEBX), x)

\* t2 carries t1's register and its code starts with the operation itself,
\* applied to that register
ReusedInPlace(t1, t2) ==
    /\ allocatedRegMap[t2] = allocatedRegMap[t1]
    /\ CodeFor(t2) # <<>>
    /\ Head(CodeFor(t2)).o = getAssemblyOpcodeForInstruction(bfun.ins[t2])
    /\ Head(CodeFor(t2)).d.v = allocatedRegMap[t1]

Allocated == bpc \in {"emit", "crashed", "call", "run", "returned", "fault"}

\* C13: once allocateRegisterForFunction has returned, usedEBX is true
\* exactly when some value of the returned map is tagged EBX
C13_UsedEBXIffTagged ==
    Allocated => (usedEBX <=> \E x \in DOMAIN allocatedRegMap : allocatedRegMap[x] = EBX)

\* the flag is set and a value holds EBX that it took over from its first
\* operand
C13_Witness ==
    /\ bpc = "call"
    /\ usedEBX
    /\ \E p \in ReuseSites : allocatedRegMap[p[2]] = EBX

\* the allocate-slot instructions of the function
Slots == {x \in DOMAIN bfun.ins : bfun.ins[x].op = "alloca"}

\* the slot that backs the formal parameter
ParameterSlots ==
    {x \in Slots : \E u \in DOMAIN bfun.ins :
        bfun.ins[u].op = "store" /\ bfun.ins[u].ops = <<Arg, Rf(x)>>}

\* C14 as stated: the frame size is 4 bytes for every slot, the parameter's
\* included, 4 for every SPILL value, and 4 more if EBX is used
C14_FrameSize ==
    bpc = "call" =>
       FrameSize = 4 * (Cardinality(Slots) + Cardinality(Spilled))
                   + (IF usedEBX THEN 4 ELSE 0)

\* C14: the frame size is 4 bytes for every slot but the one that backs the
\* parameter, 4 for every SPILL value, and 4 more if EBX is used
C14_FrameSizeAmended ==
    bpc = "call" =>
       FrameSize = 4 * (Cardinality(Slots \ ParameterSlots) + Cardinality(Spilled))
                   + (IF usedEBX THEN 4 ELSE 0)

\* a function with a parameter slot, a spilled value and EBX in use
C14_Witness ==
    /\ bpc = "call"
    /\ ParameterSlots # {}
    /\ Spilled # {}
    /\ usedEBX

\* the instructions of the function that populateOffsetMap places
Placed == Slots \cup Spilled

OffsetIn(x) == offsetMap[<<funCounter, x>>]

\* C15: once a function is written, each of its slots and SPILL values has
\* an offset, and no two of them have the same negative offset, whatever
\* earlier functions of the module left in the map
C15_OffsetsUnique ==
    bpc = "call" =>
       /\ \A x \in Placed : <<funCounter, x>> \in DOMAIN offsetMap
       /\ \A x, y \in Placed :
             x # y /\ OffsetIn(x) < 0 /\ OffsetIn(y) < 0 => OffsetIn(x) # OffsetIn(y)

\* the second function of a module, with two SPILL values, while the map
\* still holds an equal offset of the first function
C15_Witness ==
    /\ bpc = "call"
    /\ funCounter = 1
    /\ Cardinality(Spilled) = 2
    /\ \E k \in DOMAIN offsetMap, x \in Placed :
          k[1] = 0 /\ offsetMap[k] < 0 /\ offsetMap[k] = OffsetIn(x)

\* C16: main returns 1 exactly for a wrong argument count and 2 exactly for
\* a file that cannot be read or parsed, in both cases without an output file;
\* it returns 0 only when the output file was written
C16_ExitCodes ==
    /\ exitCode = 1 => argc # 2 /\ outFile = "none"
    /\ exitCode = 2 => argc = 2 /\ irFile # "ok" /\ outFile = "none"
    /\ exitCode # -1 /\ argc # 2 => exitCode = 1
    /\ exitCode # -1 /\ argc = 2 /\ irFile # "ok" => exitCode = 2
    /\ exitCode = 0 => outFile = "written"

\* C17: common-subexpression elimination merges two comparison instructions
\* only when their predicates are identical: every icmp it replaces carries
\* the predicate of the instruction that replaces it.
C17_PredicatesAgree ==
    last.pass = "cse" =>
        \A r \in last.repl :
            prev.ins[r[1]].op = "icmp" => prev.ins[r[1]].pr = prev.ins[r[2]].pr

\* the conditional branches of a function and the precondition the emitter
\* puts on them: the condition is an icmp of the branch's own block
CondBranches(B, I) ==
    {u \in UNION {Range(B[b]) : b \in DOMAIN B} : I[u].op = "br" /\ Len(I[u].ops) = 3}

BranchesOnICmp(B, I) ==
    \A u \in CondBranches(B, I) :
        LET c == I[u].ops[1]
        IN  /\ c.k = "in"
            /\ I[c.v].op = "icmp"
            /\ c.v \in Range(B[BlockOf(B, u)])

\* C18: in every function optimizeFunction returns, the condition of every
\* conditional branch is an icmp instruction of the branch's own block, never a
\* constant that folding an icmp of two constants produced; stated for the
\* functions that satisfied this when they were handed to the optimizer.
C18_BranchOnICmp ==
    pc = "done" /\ BranchesOnICmp(orig.blocks, orig.ins) => BranchesOnICmp(blocks, ins)

\* the loads of `f` whose pointer no store of `f` writes: S[p] is empty, so the
\* candidate list of such a load is empty whatever the reaching set holds
UnstoredLoads(f) ==
    {x \in UNION {Range(f.blocks[b]) : b \in DOMAIN f.blocks} :
        /\ f.ins[x].op = "load"
        /\ ~\E s \in UNION {Range(f.blocks[b]) : b \in DOMAIN f.blocks} :
               f.ins[s].op = "store" /\ f.ins[s].ops[2] = f.ins[x].ops[1]}

\* C19: constant propagation leaves a load with an empty candidate list as it
\* is: the pass does not replace it, does not delete it, and reads no element
\* of the empty list while processing it (ub records such a read, and the
\* pass dies where the read faults).
C19_EmptyCandidatesLeftAlone ==
    /\ ub = "none"
    /\ pc # "crashed"
    /\ last.pass = "prop" =>
          \A x \in UnstoredLoads(prev) :
              x \notin last.del /\ ~\E r \in last.repl : r[1] = x

\* C20: at every step of the linear scan the free-register set holds only
\* EBX, ECX and EDX: neither EAX nor the SPILL tag is ever put into it, also
\* when an operand tagged SPILL reaches its last use.
C20_FreeSetOnlyRegisters == avail \subseteq Registers

\* the turn of the allocator's loop now due processes an add/sub/mul whose
\* first operand is tagged SPILL and has its last use at this instruction
SpilledFirstOperandDies ==
    /\ bpc = "alloc"
    /\ ai <= Len(CurList)
    /\ LET instr == bfun.ins[CurList[ai]]
       IN  /\ isArithmetic(instr)
           /\ instr.ops[1].k = "in"
           /\ isSpilledInstruction(instr.ops[1].v, bbMap)
           /\ back(CurLive[instr.ops[1].v]) = ai

\* C21: two-address coalescing applies only when the first operand holds a
\* physical register: an add/sub/mul whose first operand is tagged SPILL and
\* dies at this instruction is not tagged SPILL by coalescing; when the free
\* set is non-empty it receives a register.
C21_NoCoalescingWithSpill ==
    [][SpilledFirstOperandDies /\ avail # {} /\ ai' = ai + 1
          => bbMap'[CurList[ai]] \in Registers]_vars

\* the earlier loads of the block `seq` that can stand for the load at
\* position k: same pointer, still used, no store to that pointer in between
ReusableLoads(seq, I, k) ==
    {j \in 1..(k - 1) :
        /\ I[seq[j]].op = "load"
        /\ I[seq[j]].ops[1] = I[seq[k]].ops[1]
        /\ hasUses(I, seq[j])
        /\ ~\E m \in (j + 1)..(k - 1) :
               I[seq[m]].op = "store" /\ I[seq[m]].ops[2] = I[seq[k]].ops[1]}

\* C22: common-subexpression elimination replaces the uses of a load by an
\* earlier load P of the same pointer in the same block only if P still has
\* uses and no store between the two writes to that pointer; a store to
\* another pointer between them does not prevent the replacement.
C22_LoadReuse ==
    last.pass = "cse" =>
        LET seq == prev.blocks[last.blk]
            I   == prev.ins
        IN  \A k \in DOMAIN seq :
                I[seq[k]].op = "load" =>
                    /\ \A r \in last.repl :
                           r[1] = seq[k] =>
                               \E j \in ReusableLoads(seq, I, k) : seq[j] = r[2]
                    /\ ReusableLoads(seq, I, k) # {} =>
                           \E r \in last.repl : r[1] = seq[k]

\* a load was replaced by an earlier load with a store to another pointer
\* between the two
C22_Witness ==
    /\ last.pass = "cse"
    /\ LET seq == prev.blocks[last.blk]
           I   == prev.ins
       IN  \E j, k \in DOMAIN seq :
               /\ I[seq[k]].op = "load"
               /\ <<seq[k], seq[j]>> \in last.repl
               /\ \E m \in (j + 1)..(k - 1) :
                      I[seq[m]].op = "store" /\ I[seq[m]].ops[2] # I[seq[k]].ops[1]

\* C23: for every block B the KILL set built by buildKillNGenSetMaps is the
\* set of the function's stores that write to a pointer some store of B
\* writes, without the members of GEN[B]; so GEN[B] and KILL[B] are disjoint,
\* also when B holds two or more stores to one pointer.
C23_KillExcludesGen ==
    pc = "prop" =>
    \A b \in DOMAIN blocks :
        LET written == {ins[s].ops[2] : s \in {x \in Range(blocks[b]) : isStore(ins, x)}}
        IN  /\ KillSet(blocks, ins, b) =
                  UNION {StoresTo(blocks, ins, p) : p \in written} \ GenSet(blocks, ins, b)
            /\ GenSet(blocks, ins, b) \cap KillSet(blocks, ins, b) = {}

\* the sweeps the while loop of buildInNOutSets makes from `st` on, counted
\* up to `fuel`: a result above `fuel` says the loop was still running
RECURSIVE InOutSweeps(_, _, _, _, _)
InOutSweeps(B, I, st, n, fuel) ==
    IF n > fuel THEN n
    ELSE LET nx == InOutSweep(B, I, 1, [st EXCEPT !.ch = FALSE])
         IN  IF nx.ch THEN InOutSweeps(B, I, nx, n + 1, fuel) ELSE n + 1

InOutStart(B, I) ==
    [in  |-> [b \in DOMAIN B |-> {}],
     out |-> [b \in DOMAIN B |-> GenSet(B, I, b)],
     ch  |-> TRUE]

\* every sweep but the last adds a store to the OUT set of some block
SweepBound(B, I) ==
    Cardinality({x \in Range(Flatten(B)) : isStore(I, x)}) * Len(B) + 1

\* C24: buildInNOutSets terminates on every control-flow graph, loops
\* included, and the sets it returns satisfy IN[B] = union of OUT[P] over the
\* predecessors P of B and OUT[B] = (IN[B] \ KILL[B]) \cup GEN[B] for every
\* block B, with IN of the entry block empty; the shortcut OUT = GEN for an
\* empty IN gives what the plain equation gives.
C24_ReachingStoresFixpoint ==
    pc = "prop" =>
        LET io == buildInNOutSets(blocks, ins)
        IN  /\ InOutSweeps(blocks, ins, InOutStart(blocks, ins), 0, SweepBound(blocks, ins))
                  <= SweepBound(blocks, ins)
            /\ io.in[1] = {}
            /\ \A b \in DOMAIN blocks :
                   /\ io.in[b] = UNION {io.out[p] : p \in Preds(blocks, ins, b)}
                   /\ io.out[b] = (io.in[b] \ KillSet(blocks, ins, b))
                                      \cup GenSet(blocks, ins, b)

\* a loop: the header's IN holds a store of the loop body, which reaches it
\* over the back edge only, and some block kills a store of its IN
C24_Witness ==
    /\ pc = "prop"
    /\ LET io == buildInNOutSets(blocks, ins)
       IN  /\ InOutSweeps(blocks, ins, InOutStart(blocks, ins), 0, SweepBound(blocks, ins)) >= 2
           /\ \E b \in DOMAIN blocks :
                  /\ \E p \in Preds(blocks, ins, b) : p > b
                  /\ io.in[b] \cap {x \in Range(Flatten(blocks)) : BlockOf(blocks, x) > b} # {}
           /\ \E b \in DOMAIN blocks : io.in[b] \cap KillSet(blocks, ins, b) # {}

\* the function being emitted holds a conditional branch whose condition has
\* none of the six signed predicates
UnsupportedBranch ==
    \E u \in CondBranches(bfun.blocks, bfun.ins) :
        LLVMGetICmpPredicate(bfun.ins, bfun.ins[u].ops[1])
            \notin {"eq", "ne", "sgt", "sge", "slt", "sle"}

\* C25: when the emitter meets a conditional branch whose predicate is not one
\* of eq, ne, slt, sle, sgt, sge, it reports it, emits nothing for it and
\* goes on: the program does not abort, and the function's code ends with
\* the epilogue.
C25_UnsupportedSkipped ==
    /\ bpc # "crashed"
    /\ Emitted /\ UnsupportedBranch =>
          /\ Len(asm) >= 2
          /\ SubSeq(asm, Len(asm) - 1, Len(asm)) = printFunctionEnd

\* the machine the state holds
Machine ==
    [ip |-> ip, reg |-> reg, mem |-> stack, flags |-> flags, out |-> printed, halt |-> "run"]

\* the machines that running `code` from the machines Ms leads to, each
\* stopped at position `stop` or where it halted, after at most `fuel` steps
RECURSIVE RunTo(_, _, _, _)
RunTo(code, Ms, stop, fuel) ==
    IF fuel = 0 \/ \A m \in Ms : m.ip = stop \/ m.halt # "run" THEN Ms
    ELSE RunTo(code,
               UNION {IF m.ip = stop \/ m.halt # "run" THEN {m} ELSE MStep(code, m) : m \in Ms},
               stop, fuel - 1)

\* position n holds the first of the three pushes handleLLVMCall writes
CallStartsAt(code, n) ==
    /\ n + 2 <= Len(code)
    /\ code[n] = Asm("pushl", Reg(EBX), NoOpnd)
    /\ code[n + 1] = Asm("pushl", Reg(ECX), NoOpnd)
    /\ code[n + 2] = Asm("pushl", Reg(EDX), NoOpnd)

\* the position of the `popl %ebx` that closes the sequence starting at n
CallPopsEnd(code, n) ==
    CHOOSE e \in n..Len(code) :
        /\ code[e] = Asm("popl", NoOpnd, Reg(EBX))
        /\ \A k \in n..(e - 1) : code[k] # Asm("popl", NoOpnd, Reg(EBX))

\* the sequence starting at n ends with a move of %eax to the call's result
CallHasResultMove(code, n) ==
    LET e == CallPopsEnd(code, n)
    IN  e < Len(code) /\ code[e + 1].o = "movl" /\ code[e + 1].s = Reg(EAX)

\* the position after the sequence that starts at n
CallEnd(code, n) ==
    CallPopsEnd(code, n) + (IF CallHasResultMove(code, n) THEN 2 ELSE 1)

\* C26: the code emitted for a call is stack- and register-neutral: after the
\* sequence %esp has its value of before the sequence, and %ebx, %ecx and
\* %edx have theirs, but for the register the call's result is moved to,
\* which holds the %eax the callee returned.
C26_CallNeutral ==
    bpc = "run" /\ CallStartsAt(asm, ip) =>
        \A f \in RunTo(asm, {Machine}, CallEnd(asm, ip), CallEnd(asm, ip) - ip) :
            /\ f.halt = "run" /\ f.ip = CallEnd(asm, ip)
            /\ f.reg["esp"] = reg["esp"]
            /\ \A r \in Registers :
                   IF CallHasResultMove(asm, ip)
                      /\ asm[CallEnd(asm, ip) - 1].d = Reg(r)
                   THEN f.reg[r] = f.reg[EAX]
                   ELSE f.reg[r] = reg[r]

\* a call is about to run whose result goes to a register, while %ecx holds
\* a value of the function that the callee will overwrite
C26_Witness ==
    /\ bpc = "run" /\ CallStartsAt(asm, ip)
    /\ CallHasResultMove(asm, ip)
    /\ asm[CallEnd(asm, ip) - 1].d \in {Reg(r) : r \in Registers \ {ECX}}
    /\ reg[ECX] \notin {Entry.clobber, Entry.ecx}

\* every use of an instruction that is no alloca lies in the block that
\* defines the instruction: what the per-block liveness of the allocator
\* takes for granted
UsesAreLocal(B, I) ==
    \A u \in Range(Flatten(B)) :
        \A j \in DOMAIN I[u].ops :
            I[u].ops[j].k = "in" /\ I[I[u].ops[j].v].op # "alloca" =>
                I[u].ops[j].v \in Range(B[BlockOf(B, u)])

\* C27: the optimizer keeps the precondition of the per-block allocator: when
\* every use of a non-alloca instruction of the input function lies in the
\* block that defines it, the same is true after every pass, and so of the
\* function optimizeFunction returns.
C27_UsesStayLocal ==
    pc \in {"prop", "fold", "cse", "dce", "done"} /\ UsesAreLocal(orig.blocks, orig.ins)
        => UsesAreLocal(blocks, ins)

\* a pass has redirected uses in a function of several blocks
C27_Witness ==
    /\ Len(blocks) > 1
    /\ UsesAreLocal(orig.blocks, orig.ins)
    /\ last.pass \in {"prop", "cse"}
    /\ last.repl # {}
    /\ \E r \in last.repl : \E u \in Range(Flatten(blocks)) :
           \E j \in DOMAIN prev.ins[u].ops : prev.ins[u].ops[j] = Rf(r[1])

\* the positions of the emitted code that follow the code of a `ret`: the
\* return is the last instruction of its block, so they follow the block
ReturnEnds ==
    LET ctx == CodeGenContext(bfun, allocatedRegMap, usedEBX)
    IN  {Len(printFunctionDirectives(ctx))
           + Len(Flatten([c \in 1..b |->
                             generateAssemblyForInstructions(ctx, bfun.blocks, c)])) + 1 :
         b \in {b \in DOMAIN bfun.blocks :
                   bfun.ins[bfun.blocks[b][Len(bfun.blocks[b])]].op = "ret"}}

\* C28: once the code emitted for a `ret` has executed, control is at the
\* function's `leave; ret` and runs no instruction emitted for another block,
\* so %eax at `ret` holds the operand of the return that was reached, also
\* when the returning block is not the last block of the function.
C28_ReturnReachesEpilogue ==
    bpc = "run" /\ ip \in ReturnEnds => asm[ip].o = "leave"

\* the operands of the instruction now due that hold a physical register and
\* have their last use at this instruction
DyingInRegister ==
    LET instr == bfun.ins[CurList[ai]]
        live  == CurLive
    IN  {instr.ops[j].v : j \in {j \in DOMAIN instr.ops :
            /\ instr.ops[j].k = "in"
            /\ instr.ops[j].v \in DOMAIN bbMap
            /\ bbMap[instr.ops[j].v] \in Registers
            /\ instr.ops[j].v \in DOMAIN live
            /\ back(live[instr.ops[j].v]) = ai}}

\* C29: no register leaks during linear scan: whichever branch processes
\* instruction i, each operand that holds a physical register and whose last
\* use is i has that register returned to the free set or handed to the
\* result of instruction i when the step completes.
C29_NoRegisterLeak ==
    [][bpc = "alloc" /\ ai <= Len(CurList) /\ ai' = ai + 1 =>
          \A y \in DyingInRegister :
              \/ bbMap[y] \in avail'
              \/ /\ CurList[ai] \in DOMAIN bbMap'
                 /\ bbMap'[CurList[ai]] = bbMap[y]]_vars

\* the side-effecting instructions of a block, in block order
SideEffecting(seq, I) ==
    SelectSeq(seq, LAMBDA x : I[x].op \in {"store", "call", "br", "ret"})

====
